---- MODULE Spec2Model ----
(***************************************************************************)
(* A model of the weather analytics core: the correlation engine of        *)
(* app/analytics/correlation_service.py (calculate_correlations,           *)
(* identify_strong_correlations, analyze_temporal_stability and the fetch  *)
(* load_weather_data they rest on), and the PCA engine of                 *)
(* app/analytics/pca_service.py (prepare_data_for_pca, perform_pca,        *)
(* detect_anomalies).  Every call is made without a station filter         *)
(* (station_id=None).                                                      *)
(*                                                                         *)
(* Units.  Coefficients and coefficient thresholds are counted in tenths   *)
(* (0.7 is 7), p-values and p-value thresholds in hundredths (0.05 is 5),  *)
(* timestamps and durations in days.  A float is a record [kind, v]: kind  *)
(* "num" carries the value v, kind "nan" is the IEEE not-a-number, kind    *)
(* "none" is Python's None.                                                *)
(***************************************************************************)
EXTENDS Integers, Sequences, FiniteSets, TLC

VARIABLES
    \* ---- identify_strong_correlations: its arguments and what it returned
    correlation_matrix,   \* [columns: Seq(name), val: [i,j] -> float]
    pvalue_matrix,        \* [supplied: BOOLEAN, val: [i,j] -> float]
    pvalue_threshold,     \* hundredths
    called,               \* the thresholds the function was called with
    strong,               \* threshold -> the list returned for it
    \* ---- calculate_correlations: its arguments and its outcome
    df,                   \* the DataFrame handed in
    method,               \* the method selector
    min_observations,     \* the minimum non-missing count of a column
    calc,                 \* [status, error, matrices]
    \* ---- analyze_temporal_stability: the store, the arguments, the loop
    store,                \* timestamp (day) -> the batch of rows stamped with it
    start_date,
    end_date,
    window_days,
    step_days,
    parameters,           \* [given: BOOLEAN, list: Seq(name)]
    pc,                   \* "off", "idle", "loop", "done", "failed"
    tracked,              \* the parameter list after the default is applied
    current_start,
    results,              \* [windows: Seq, correlations: key -> [pearson, spearman]]
    fetched,              \* the calls made to load_weather_data, in order
    raised,               \* the error analyze_temporal_stability raised, or "none"
    store_errors,         \* the fetches of the call on which the store failed
    \* ---- the one PCAAnalysisService and the requests that use it
    pca_store,            \* timestamp (day) -> the batch of rows stamped with it
    requests,             \* request -> its arguments
    rpc,                  \* request -> "off", "new", "prepared", "performed", "failed"
    scaler,               \* self.scaler: the data it was last fitted on
    prepared,             \* request -> what prepare_data_for_pca gave it
    pca,                  \* request -> what perform_pca gave it
    \* ---- detect_anomalies: its argument and what it returned
    error_df,             \* the reconstruction_error column, in row order
    detected,             \* the percentiles the function was called with
    anomaly_df,           \* percentile -> the rows returned for it
    \* ---- one request to an analysis endpoint of api.py
    endpoint,             \* the endpoint the request is sent to
    body,                 \* the fields of the request body the handler reads
    computed,             \* the matrices calculate_correlations gives the handler
    stage,                \* the index of the next step of the handler
    strong_correlations,  \* the handler's local list
    failed_step,          \* the step that raised, or "none"
    answer,               \* what the client receives
    \* ---- one direct call of load_weather_data
    load_store,           \* timestamp (day) -> the batch of rows stamped with it
    load_args,            \* [start_date, end_date, parameters]
    loaded,               \* [status, error, frame]: what the call gave
    \* ---- calculate_correlations followed through the values of a DataFrame
    sample,               \* [len, columns, data]: the DataFrame, cell by cell
    sample_args,          \* [method, min_observations]
    matrices,             \* [status, error, matrices]: what the call gave
    \* ---- identify_top_contributors: its arguments and what it returned
    components_df,        \* [index: Seq(feature), columns: Seq(pc), val: pc -> feature -> loading]
    n_top,
    top_contributors,     \* [status, top: pc -> Seq([feature, loading])]
    \* ---- the store connections analyze_temporal_stability's fetches made
    connections,          \* per connection, in order of creation: "open" or "closed"
    \* ---- the dashboard's utils.py: its two caches and the runs of its loaders
    cached_conn,          \* what st.cache_resource holds for get_db_connection
    data_cache,           \* the calls st.cache_data holds a result for
    executions,           \* the uncached runs so far: [call, handed, outcome]
    \* ---- one run of the ETL's process_all_csv_files
    csv_files,            \* the files glob found, in its order
    etl_pc,               \* "off", "start", "loop", "done", "failed"
    file_index,           \* the position of the for loop in csv_files
    location,             \* file -> "data" or "processed"
    weather_raw,          \* the files whose rows are committed to the table
    uncommitted,          \* the files whose rows the open transaction holds
    total_records,
    etl_conn,             \* "none", "open", "closed"
    outcome               \* file -> how its turn of the loop ended, "" before it

strongVars == <<correlation_matrix, pvalue_matrix, pvalue_threshold, called, strong>>
calcVars == <<df, method, min_observations, calc>>
temporalVars == <<store, start_date, end_date, window_days, step_days, parameters,
                  pc, tracked, current_start, results, fetched, raised, store_errors>>
pcaVars == <<pca_store, requests, rpc, scaler, prepared, pca>>
anomalyVars == <<error_df, detected, anomaly_df>>
apiVars == <<endpoint, body, computed, stage, strong_correlations, failed_step, answer>>
loadVars == <<load_store, load_args, loaded>>
matrixVars == <<sample, sample_args, matrices>>
topVars == <<components_df, n_top, top_contributors>>
connVars == <<connections>>
utilsVars == <<cached_conn, data_cache, executions>>
etlVars == <<csv_files, etl_pc, file_index, location, weather_raw, uncommitted,
             total_records, etl_conn, outcome>>
vars == <<strongVars, calcVars, temporalVars, pcaVars, anomalyVars, apiVars, loadVars, matrixVars, topVars, connVars, utilsVars, etlVars>>

(***************************************************************************)
(* Bounds of the model.                                                    *)
(***************************************************************************)
MaxCols == 3      \* most columns of a matrix or parameters of a DataFrame
MaxDay == 3       \* the store holds timestamps 0..MaxDay
MaxIter == MaxDay + 1   \* most turns of the window loop one call is followed through

(***************************************************************************)
(* Floats.                                                                 *)
(***************************************************************************)
Num(x) == [kind |-> "num", v |-> x]
NaN == [kind |-> "nan", v |-> 0]
None == [kind |-> "none", v |-> 0]

\* abs(x): the magnitude of a number, NaN for NaN
FAbs(x) == IF x.kind = "num" THEN Num(IF x.v < 0 THEN -x.v ELSE x.v) ELSE x

\* x >= y and x > y on floats: every comparison with a NaN is False
FGe(x, y) == x.kind = "num" /\ y.kind = "num" /\ x.v >= y.v
FGt(x, y) == x.kind = "num" /\ y.kind = "num" /\ x.v > y.v

Names == <<"temperature", "humidity", "wind_speed", "radiation",
           "wind_direction", "precipitation">>

Prefix(s, n) == [i \in 1..n |-> s[i]]

(***************************************************************************)
(* identify_strong_correlations                                            *)
(***************************************************************************)
\* the default arguments of identify_strong_correlations
DefaultThreshold == 7
DefaultPvalueThreshold == 5

\* the coefficient thresholds and p-value thresholds the function is called with
Thresholds == {5, DefaultThreshold}
PvalueThresholds == {1, DefaultPvalueThreshold}

\* what a matrix pair can hold: <<coefficient, p-value>>
Entries == { <<Num(7), Num(5)>>, <<Num(-7), Num(5)>>, <<Num(5), Num(5)>>,
             <<Num(7), Num(6)>>, <<Num(7), NaN>>, <<NaN, Num(5)>> }

UpperSet(n) == {p \in (1..n) \X (1..n) : p[1] < p[2]}

\* a symmetric matrix over the first n names: `diag` on the diagonal, the k-th
\* part of the pair's entry elsewhere
SymMatrix(n, up, k, diag) ==
    [p \in (1..n) \X (1..n) |->
        IF p[1] = p[2] THEN diag
        ELSE IF p[1] < p[2] THEN up[p][k] ELSE up[<<p[2], p[1]>>][k]]

\* for j in range(i+1, n), as a sequence of index pairs
RowPairs(i, n) == [k \in 1..(n - i) |-> <<i, i + k>>]

\* for j in range(n): the whole row, diagonal and lower triangle included
RowPairsFull(i, n) == [k \in 1..n |-> <<i, k>>]

RECURSIVE RowsFrom(_, _)
RowsFrom(i, n) == IF i > n THEN <<>> ELSE RowPairs(i, n) \o RowsFrom(i + 1, n)

RECURSIVE RowsFromFull(_, _)
RowsFromFull(i, n) == IF i > n THEN <<>> ELSE RowPairsFull(i, n) \o RowsFromFull(i + 1, n)

PairOrderFull(n) == RowsFromFull(1, n)

\* the two nested loops: the index pairs visited, in the order visited
PairOrder(n) == RowsFrom(1, n)

QualifiesBelow(corr, pm, threshold, pthr) ==
    /\ FGe(Num(threshold), FAbs(corr))
    /\ ~(pm.supplied /\ FGt(pm.p, Num(pthr)))

\* the two tests of the loop body: abs(corr) >= threshold, and
\* `if pval > pvalue_threshold: continue` when a p-value matrix was given;
\* pm is [supplied, p]
Qualifies(corr, pm, threshold, pthr) ==
    /\ FGe(FAbs(corr), Num(threshold))
    /\ ~(pm.supplied /\ FGt(pm.p, Num(pthr)))

\* the key of the sort: abs(x[2])
SortKey(r) == FAbs(r.corr)

RECURSIVE Reverse(_)
Reverse(s) == IF s = <<>> THEN <<>> ELSE <<s[Len(s)]>> \o Reverse(SubSeq(s, 1, Len(s) - 1))

\* a stable ascending sort by key, by insertion
RECURSIVE SortAscending(_)
SortAscending(s) ==
    IF s = <<>> THEN <<>>
    ELSE LET r == SortAscending(SubSeq(s, 1, Len(s) - 1))
             x == s[Len(s)]
             k == Cardinality({i \in DOMAIN r : FGe(SortKey(x), SortKey(r[i]))})
         IN  SubSeq(r, 1, k) \o <<x>> \o SubSeq(r, k + 1, Len(r))

\* sort(key=abs) followed by reverse(): descending, but ties end up reversed
SortThenReverse(s) == Reverse(SortAscending(s))

\* list.sort(key=lambda x: abs(x[2]), reverse=True): descending by key, and
\* records with equal keys keep their order (Python's sort is stable, also
\* with reverse=True); by insertion after the records whose key is >=
RECURSIVE SortByAbsDescending(_)
SortByAbsDescending(s) ==
    IF s = <<>> THEN <<>>
    ELSE LET r == SortByAbsDescending(SubSeq(s, 1, Len(s) - 1))
             x == s[Len(s)]
             k == Cardinality({i \in DOMAIN r : FGe(SortKey(r[i]), SortKey(x))})
         IN  SubSeq(r, 1, k) \o <<x>> \o SubSeq(r, k + 1, Len(r))

\* the function: the records appended by the loop, then sorted
IdentifyStrongCorrelations(cm, pvm, threshold, pthr) ==
    LET order == PairOrder(Len(cm.columns))
        Rec(p) == [var1 |-> cm.columns[p[1]], var2 |-> cm.columns[p[2]],
                   corr |-> cm.val[p],
                   pval |-> IF pvm.supplied THEN pvm.val[p] ELSE None]
        Keep(p) == Qualifies(cm.val[p], [supplied |-> pvm.supplied, p |-> pvm.val[p]],
                             threshold, pthr)
        kept == SelectSeq(order, Keep)
    IN  SortByAbsDescending([k \in 1..Len(kept) |-> Rec(kept[k])])

NoMatrix == [columns |-> <<>>, val |-> <<>>]

StrongIdle ==
    /\ correlation_matrix = NoMatrix
    /\ pvalue_matrix = [supplied |-> FALSE, val |-> <<>>]
    /\ pvalue_threshold = DefaultPvalueThreshold
    /\ called = {}
    /\ strong = [t \in Thresholds |-> <<>>]

\* the arguments: a symmetric coefficient matrix with 1.0 on the diagonal and,
\* when supplied, a p-value matrix of the same shape with 0.0 on the diagonal
StrongInit ==
    /\ \E n \in 2..MaxCols : \E up \in [UpperSet(n) -> Entries] :
         /\ correlation_matrix = [columns |-> Prefix(Names, n),
                                  val |-> SymMatrix(n, up, 1, Num(10))]
         /\ \/ pvalue_matrix = [supplied |-> TRUE, val |-> SymMatrix(n, up, 2, Num(0))]
            \/ pvalue_matrix = [supplied |-> FALSE,
                                val |-> [p \in (1..n) \X (1..n) |-> None]]
    /\ pvalue_threshold \in PvalueThresholds
    /\ called = {}
    /\ strong = [t \in Thresholds |-> <<>>]

\* one call of identify_strong_correlations on the matrices, with threshold t
Identify(t) ==
    /\ t \notin called
    /\ called' = called \cup {t}
    /\ strong' = [strong EXCEPT ![t] =
           IdentifyStrongCorrelations(correlation_matrix, pvalue_matrix, t,
                                      pvalue_threshold)]
    /\ UNCHANGED <<correlation_matrix, pvalue_matrix, pvalue_threshold>>

IdentifyStrong == \E t \in Thresholds : Identify(t)

(***************************************************************************)
(* DataFrames.  A DataFrame is known by what the code reads of it: its     *)
(* row count (len), its columns in order, which columns have a numeric     *)
(* dtype, each column's count of non-missing values, and the timestamps    *)
(* its rows carry.                                                         *)
(***************************************************************************)
Range(s) == {s[i] : i \in DOMAIN s}

NoFrame == [len |-> 0, columns |-> <<>>, numeric |-> {}, count |-> <<>>, stamps |-> {}]

(***************************************************************************)
(* calculate_correlations                                                  *)
(***************************************************************************)
DefaultMinObservations == 30

InsufficientData == "Insufficient data for correlation analysis"

\* the method selectors a caller can pass (the API passes the request's
\* "method" through unchecked)
Methods == {"pearson", "spearman", "both", "kendall"}

ValidColsWithStation(d, min_obs) ==
    SelectSeq(d.columns, LAMBDA c : c \in d.numeric /\ d.count[c] >= min_obs)

\* valid_cols: the numeric columns other than station_id whose non-null
\* count is >= min_observations, in column order
ValidCols(d, min_obs) ==
    SelectSeq(d.columns,
              LAMBDA c : c \in d.numeric /\ c # "station_id" /\ d.count[c] >= min_obs)

\* the keys of the returned dictionary
ResultKeys(m) ==
    (IF m \in {"pearson", "both"} THEN {"pearson", "pearson_pvalues"} ELSE {})
    \cup (IF m \in {"spearman", "both"} THEN {"spearman", "spearman_pvalues"} ELSE {})

\* the call: raises ValueError when fewer than 2 columns are valid, else
\* returns one matrix over the valid columns per key.  A matrix is known by
\* its columns; its values are pandas' and scipy's.
CalculateCorrelations(d, m, min_obs) ==
    LET valid_cols == ValidCols(d, min_obs)
    IN  IF Len(valid_cols) < 2
        THEN [status |-> "error", error |-> InsufficientData,
              matrices |-> [k \in {} |-> [columns |-> <<>>]]]
        ELSE [status |-> "ok", error |-> "",
              matrices |-> [k \in ResultKeys(m) |-> [columns |-> valid_cols]]]

Pending == [status |-> "pending", error |-> "", matrices |-> [k \in {} |-> [columns |-> <<>>]]]

CalcIdle ==
    /\ df = NoFrame
    /\ method = "both"
    /\ min_observations = DefaultMinObservations
    /\ calc = Pending

\* what a parameter column of a DataFrame can be: <<numeric dtype, non-null count>>
FrameLen == 31
ColumnChoices == { <<TRUE, 10>>, <<TRUE, 29>>, <<TRUE, 30>>, <<TRUE, 31>>,
                   <<FALSE, 31>> }

\* the arguments: timestamp, station_id (numeric or not, never missing) and
\* up to MaxCols parameter columns
CalcInit ==
    /\ \E n \in 0..MaxCols : \E ch \in [1..n -> ColumnChoices] : \E st \in BOOLEAN :
         LET ps == Prefix(Names, n)
         IN  df = [len |-> FrameLen,
                   columns |-> <<"timestamp", "station_id">> \o ps,
                   numeric |-> {ps[i] : i \in {j \in 1..n : ch[j][1]}}
                               \cup (IF st THEN {"station_id"} ELSE {}),
                   count |-> [c \in {"timestamp", "station_id"} \cup Range(ps) |->
                                IF c \in {"timestamp", "station_id"} THEN FrameLen
                                ELSE ch[CHOOSE i \in 1..n : ps[i] = c][2]],
                   stamps |-> {0}]
    /\ method \in Methods
    /\ min_observations \in {10, DefaultMinObservations}
    /\ calc = Pending

\* one call of calculate_correlations
Calculate ==
    /\ calc.status = "pending"
    /\ calc' = CalculateCorrelations(df, method, min_observations)
    /\ UNCHANGED <<df, method, min_observations>>

(***************************************************************************)
(* The observation store and load_weather_data                             *)
(***************************************************************************)
\* the rows of the store that carry one timestamp: how many there are and,
\* per parameter, how many of them hold a value
Batch(n, missing) == [rows |-> n,
                      count |-> [c \in Range(Names) |-> IF c \in missing THEN 0 ELSE n]]

BatchKinds == { Batch(0, {}),
                Batch(30, {}),
                Batch(30, {"wind_speed"}),
                Batch(30, Range(Names) \ {"temperature"}) }

RECURSIVE SumOver(_, _)
SumOver(S, f) ==
    IF S = {} THEN 0
    ELSE LET x == CHOOSE y \in S : TRUE IN f[x] + SumOver(S \ {x}, f)

InRangeHalfOpen(st, s, e) == {d \in DOMAIN st : s <= d /\ d < e}

\* WHERE timestamp BETWEEN %s AND %s: both ends are included
InRange(st, s, e) == {d \in DOMAIN st : s <= d /\ d <= e}

\* load_weather_data(start, end, None, parameters) with a parameter list: the
\* DataFrame of the rows in range.  station_id is a numeric column; a
\* parameter column is numeric when one of its rows holds a value.
LoadWeatherData(st, s, e, params) ==
    LET days == InRange(st, s, e)
        cnt == [c \in Range(params) |-> SumOver(days, [d \in days |-> st[d].count[c]])]
        n == SumOver(days, [d \in days |-> st[d].rows])
    IN  [len |-> n,
         columns |-> <<"timestamp", "station_id">> \o params,
         numeric |-> {"station_id"} \cup {c \in Range(params) : cnt[c] > 0},
         count |-> [c \in {"timestamp", "station_id"} \cup Range(params) |->
                      IF c \in Range(params) THEN cnt[c] ELSE n],
         stamps |-> {d \in days : st[d].rows > 0}]

(***************************************************************************)
(* analyze_temporal_stability                                              *)
(***************************************************************************)
\* `if len(df) >= 30`
MinWindowRows == 30

DefaultTemporalParametersSix ==
    <<"temperature", "humidity", "wind_speed", "wind_direction", "radiation", "precipitation">>

\* parameters = ['temperature', 'humidity', 'wind_speed', 'radiation']
DefaultTemporalParameters == Prefix(Names, 4)

\* the keys f"{param1}_vs_{param2}" for i < j, as pairs of names
PairKeys(params) == {<<params[p[1]], params[p[2]]>> : p \in UpperSet(Len(params))}

\* the value at .loc[param1, param2] of method m's matrix for the window
\* fetched as [s, e]: known by where it comes from
Coefficient(m, key, s, e) == [method |-> m, pair |-> key, start |-> s, end |-> e]

WindowEntry(d, s, e) == [start |-> s, end |-> e, observations |-> d.len]

\* the extraction loop: a value is appended for the pairs whose two
\* parameters are both columns of the window's pearson matrix
Extract(corrs, cr, params, s, e) ==
    [key \in DOMAIN corrs |->
        IF key[1] \in Range(cr.matrices["pearson"].columns)
           /\ key[2] \in Range(cr.matrices["pearson"].columns)
        THEN [pearson |-> Append(corrs[key].pearson, Coefficient("pearson", key, s, e)),
              spearman |-> Append(corrs[key].spearman, Coefficient("spearman", key, s, e))]
        ELSE corrs[key]]

ProcessWindowNoTry(res, d, s, e, params) ==
    LET cr == CalculateCorrelations(d, "both", DefaultMinObservations)
    IN  IF cr.status = "error"
        THEN [results |-> res, raised |-> cr.error]
        ELSE [results |-> [windows |-> Append(res.windows, WindowEntry(d, s, e)),
                           correlations |-> Extract(res.correlations, cr, params, s, e)],
              raised |-> "none"]

\* the try block of one window: calculate_correlations(df, method='both');
\* when it raises, the except clause logs and nothing was appended; else the
\* window is appended and the values are extracted
ProcessWindow(res, d, s, e, params) ==
    LET cr == CalculateCorrelations(d, "both", DefaultMinObservations)
    IN  IF cr.status = "error"
        THEN [results |-> res, raised |-> "none"]
        ELSE [results |-> [windows |-> Append(res.windows, WindowEntry(d, s, e)),
                           correlations |-> Extract(res.correlations, cr, params, s, e)],
              raised |-> "none"]

\* `if len(df) >= 30`
EnoughRows(d) == d.len >= MinWindowRows

InLoopStrict(t) == t + window_days < end_date

\* the loop condition: current_start + timedelta(days=window_days) <= end_date
InLoop(t) == t + window_days <= end_date

NextStartByWindow(t) == t + window_days

\* current_start += timedelta(days=step_days)
NextStart(t) == t + step_days

\* the error of a failing store (psycopg2.OperationalError and its kin)
StoreUnavailable == "store unavailable"

OnStoreErrorSkipped(t) == [pc |-> "loop", raised |-> "none", current_start |-> NextStart(t)]

\* a store error met by the fetch of the window starting at t: neither
\* load_weather_data nor the loop catches it
OnStoreError(t) == [pc |-> "failed", raised |-> StoreUnavailable, current_start |-> t]

NoResults == [windows |-> <<>>, correlations |-> [k \in {} |-> 0]]

TemporalIdle ==
    /\ store = <<>>
    /\ start_date = 0
    /\ end_date = 0
    /\ window_days = 30
    /\ step_days = 7
    /\ parameters = [given |-> FALSE, list |-> <<>>]
    /\ pc = "off"
    /\ tracked = <<>>
    /\ current_start = 0
    /\ results = NoResults
    /\ fetched = <<>>
    /\ raised = "none"
    /\ store_errors = 0

\* a store over the timestamps 0..MaxDay and a request as the temporal
\* endpoint passes it on: window_days and step_days are taken unchecked
TemporalInit ==
    /\ store \in [0..MaxDay -> BatchKinds]
    /\ start_date = 0
    /\ end_date \in {MaxDay - 1, MaxDay}
    /\ window_days \in 0..2
    /\ step_days \in -1..2
    /\ parameters \in {[given |-> FALSE, list |-> <<>>],
                       [given |-> TRUE, list |-> Prefix(Names, 3)]}
    /\ pc = "idle"
    /\ tracked = <<>>
    /\ current_start = 0
    /\ results = NoResults
    /\ fetched = <<>>
    /\ raised = "none"
    /\ store_errors = 0

\* Scenario D: a range of 90 days (and, beside it, of 89), window_days = 30,
\* step_days = 30, over a store with rows on and between the window bounds
ScenarioDays == {0, 15, 45, 60, 75, 90}

ScenarioInit ==
    /\ store \in [ScenarioDays -> BatchKinds]
    /\ start_date = 0
    /\ end_date \in {89, 90}
    /\ window_days = 30
    /\ step_days = 30
    /\ parameters = [given |-> TRUE, list |-> Prefix(Names, 3)]
    /\ pc = "idle"
    /\ tracked = <<>>
    /\ current_start = 0
    /\ results = NoResults
    /\ fetched = <<>>
    /\ raised = "none"
    /\ store_errors = 0

\* `if parameters is None` of analyze_temporal_stability
TemporalParameters(ps) == IF ps.given THEN ps.list ELSE DefaultTemporalParameters

\* entry: the default parameter list, the empty result, current_start
Call ==
    /\ pc = "idle"
    /\ LET params == TemporalParameters(parameters)
       IN  /\ tracked' = params
           /\ results' = [windows |-> <<>>,
                          correlations |-> [k \in PairKeys(params) |->
                                              [pearson |-> <<>>, spearman |-> <<>>]]]
    /\ current_start' = start_date
    /\ pc' = "loop"
    /\ UNCHANGED <<store, start_date, end_date, window_days, step_days, parameters,
                   fetched, raised, store_errors>>

\* one turn of the while loop: fetch the window, process it when it has
\* enough rows, step current_start
WindowStep ==
    /\ pc = "loop"
    /\ InLoop(current_start)
    /\ Len(fetched) < MaxIter
    /\ LET current_end == current_start + window_days
           d == LoadWeatherData(store, current_start, current_end, tracked)
           out == IF EnoughRows(d)
                  THEN ProcessWindow(results, d, current_start, current_end, tracked)
                  ELSE [results |-> results, raised |-> "none"]
       IN  /\ fetched' = Append(fetched, [start |-> current_start, end |-> current_end,
                                          frame |-> d])
           /\ results' = out.results
           /\ raised' = out.raised
           /\ pc' = IF out.raised = "none" THEN "loop" ELSE "failed"
    /\ current_start' = NextStart(current_start)
    /\ UNCHANGED <<store, start_date, end_date, window_days, step_days, parameters,
                   tracked, store_errors>>

\* one turn of the while loop on which the store fails: the error leaves
\* load_weather_data and, the fetch standing before the try block, leaves
\* analyze_temporal_stability
FetchFails ==
    /\ pc = "loop"
    /\ InLoop(current_start)
    /\ Len(fetched) < MaxIter
    /\ store_errors < MaxIter
    /\ store_errors' = store_errors + 1
    /\ LET out == OnStoreError(current_start)
       IN  /\ pc' = out.pc
           /\ raised' = out.raised
           /\ current_start' = out.current_start
    /\ UNCHANGED <<store, start_date, end_date, window_days, step_days, parameters,
                   tracked, results, fetched>>

\* the loop condition is false: return results
Return ==
    /\ pc = "loop"
    /\ ~InLoop(current_start)
    /\ pc' = "done"
    /\ UNCHANGED <<store, start_date, end_date, window_days, step_days, parameters,
                   tracked, current_start, results, fetched, raised, store_errors>>

(***************************************************************************)
(* The PCA engine of app/analytics/pca_service.py: prepare_data_for_pca    *)
(* and perform_pca, called by requests that share the one                  *)
(* PCAAnalysisService of the API and with it its scaler.  Explained        *)
(* variance ratios and variance thresholds are counted in hundredths       *)
(* (0.95 is 95).  Requests use the default aggregation 'hourly'.           *)
(***************************************************************************)
Requests == {"A", "B"}

\* the default parameter list of prepare_data_for_pca
DefaultPcaParameters == <<"temperature", "humidity", "wind_speed",
                          "wind_direction", "radiation", "precipitation">>

DefaultVarianceThreshold == 95

\* the errors that leave prepare_data_for_pca and perform_pca: none is
\* raised by the service itself, they are pandas' and scikit-learn's
SqlError == "DatabaseError"
LibraryError == "ValueError"

\* what a fit of the scaler (its mean_ and scale_) is known by: the rows
\* (those of the timestamps in stamps) and the columns it was fitted on
Fit(stamps, cols) == [fitted |-> TRUE, stamps |-> stamps, columns |-> cols]
Unfitted == [fitted |-> FALSE, stamps |-> {}, columns |-> <<>>]

\* a scaled feature matrix: its columns, its row count, the data it was
\* scaled from, and the explained variance ratios a full PCA fit of it has
NoMatrixX == [columns |-> <<>>, rows |-> 0, data |-> Unfitted, ratios |-> <<>>]

NotPrepared == [status |-> "pending", error |-> "", X_scaled |-> NoMatrixX,
                feature_cols |-> <<>>]

\* the parameter list after the default is applied
PcaParameters(ps) == IF ps.given THEN ps.list ELSE DefaultPcaParameters

\* prepare_data_for_pca reading the store st, with self.scaler = sc; ratios
\* are the explained variance ratios of the matrix it makes.
\* Returns what the caller gets and the scaler the call leaves behind.
\*  - an empty parameter list makes the SELECT list end in a comma: the
\*    query fails;
\*  - without rows the imputer's fit raises;
\*  - a column without any value is dropped by the imputer, the scaler is
\*    fitted on the columns left, and the DataFrame constructor raises on
\*    the column count;
\*  - otherwise the scaler is fitted on the imputed columns and the scaled
\*    matrix is returned with one column per parameter: there is no test on
\*    the number of feature columns.
PrepareDataForPca(st, s, e, ps, sc, ratios) ==
    LET params == PcaParameters(ps)
        failed(err, sc2) == [out |-> [status |-> "error", error |-> err,
                                      X_scaled |-> NoMatrixX, feature_cols |-> <<>>],
                             scaler |-> sc2]
    IN  IF Len(params) = 0 THEN failed(SqlError, sc)
        ELSE LET d == LoadWeatherData(st, s, e, params)
                 feature_cols == SelectSeq(params, LAMBDA c : c \in Range(d.columns))
                 kept == SelectSeq(feature_cols, LAMBDA c : d.count[c] > 0)
             IN  IF d.len = 0 THEN failed(LibraryError, sc)
                 ELSE IF Len(kept) = 0 THEN failed(LibraryError, sc)
                 ELSE IF Len(kept) < Len(feature_cols)
                      THEN failed(LibraryError, Fit(d.stamps, kept))
                 ELSE [out |-> [status |-> "ok", error |-> "",
                                X_scaled |-> [columns |-> feature_cols, rows |-> d.len,
                                              data |-> Fit(d.stamps, feature_cols),
                                              ratios |-> ratios],
                                feature_cols |-> feature_cols],
                       scaler |-> Fit(d.stamps, feature_cols)]

\* np.cumsum
RECURSIVE CumSum(_)
CumSum(q) ==
    IF Len(q) = 0 THEN <<>>
    ELSE LET front == CumSum(SubSeq(q, 1, Len(q) - 1))
         IN  Append(front, (IF Len(front) = 0 THEN 0 ELSE front[Len(front)]) + q[Len(q)])

ArgMaxLast(b) ==
    IF \E i \in DOMAIN b : b[i]
    THEN (CHOOSE i \in DOMAIN b : b[i] /\ \A j \in DOMAIN b : b[j] => j <= i) - 1
    ELSE 0

\* np.argmax of a boolean array: the (0-based) index of the first True, and
\* 0 when no entry is True
ArgMax(b) ==
    IF \E i \in DOMAIN b : b[i]
    THEN (CHOOSE i \in DOMAIN b : b[i] /\ \A j \in DOMAIN b : b[j] => i <= j) - 1
    ELSE 0

\* np.argmax(cumsum_var >= variance_threshold) + 1
SelectComponents(ratios, variance_threshold) ==
    LET cumsum_var == CumSum(ratios)
    IN  ArgMax([i \in DOMAIN cumsum_var |-> cumsum_var[i] >= variance_threshold]) + 1

NotPerformed == [status |-> "pending", error |-> "", n_components |-> 0,
                 explained_variance_ratio |-> <<>>, cumulative_variance_ratio |-> <<>>,
                 feature_names |-> <<>>, mean |-> Unfitted, scale |-> Unfitted]

\* perform_pca on the matrix X, with self.scaler = sc.  PCA(n_components=n) raises when
\* n is not within 1..n_features (the matrices here have more rows than
\* columns); the fit with n components keeps the first n ratios.
PerformPca(X, nc, variance_threshold, sc) ==
    LET ratios == X.ratios
        n_components == IF nc.given THEN nc.n
                        ELSE SelectComponents(ratios, variance_threshold)
    IN  IF n_components < 1 \/ n_components > Len(X.columns)
        THEN [NotPerformed EXCEPT !.status = "error", !.error = LibraryError]
        ELSE [status |-> "ok", error |-> "",
              n_components |-> n_components,
              explained_variance_ratio |-> SubSeq(ratios, 1, n_components),
              cumulative_variance_ratio |-> CumSum(SubSeq(ratios, 1, n_components)),
              feature_names |-> X.columns,
              mean |-> sc,
              scale |-> sc]

\* the explained variance ratios a full fit can have: n values, from the
\* largest down, that add up to the whole
RatioValues == {0, 5, 25, 45, 50, 70, 95, 100}

RECURSIVE RatioSeqs(_, _, _)
RatioSeqs(n, total, top) ==
    IF n = 0 THEN (IF total = 0 THEN {<<>>} ELSE {})
    ELSE UNION { {<<v>> \o rest : rest \in RatioSeqs(n - 1, total - v, v)} :
                 v \in {w \in RatioValues : w <= top /\ w <= total} }

Spectra(n) == IF n = 0 THEN {<<>>} ELSE RatioSeqs(n, 100, 100)

NoRequest == [start_date |-> 0, end_date |-> 0,
              parameters |-> [given |-> FALSE, list |-> <<>>],
              n_components |-> [given |-> FALSE, n |-> 0],
              variance_threshold |-> DefaultVarianceThreshold]

PcaIdle ==
    /\ pca_store = <<>>
    /\ requests = [r \in Requests |-> NoRequest]
    /\ rpc = [r \in Requests |-> "off"]
    /\ scaler = Unfitted
    /\ prepared = [r \in Requests |-> NotPrepared]
    /\ pca = [r \in Requests |-> NotPerformed]

PcaDays == {0, 1}
PcaRanges == {<<0, 0>>, <<0, 1>>, <<1, 1>>}
PcaParameterLists ==
    {[given |-> TRUE, list |-> Prefix(Names, n)] : n \in 0..MaxCols}
    \cup {[given |-> FALSE, list |-> <<>>]}
VarianceThresholds == {50, DefaultVarianceThreshold, 100, 105}

\* one request as the API passes it on: n_components and
\* variance_threshold are taken unchecked
PcaCallInit ==
    /\ pca_store \in [PcaDays -> BatchKinds]
    /\ \E rg \in PcaRanges : \E ps \in PcaParameterLists :
       \E nc \in {[given |-> FALSE, n |-> 0]} \cup {[given |-> TRUE, n |-> k] : k \in 1..MaxCols} :
       \E vt \in VarianceThresholds :
          requests = [r \in Requests |->
                        IF r = "A"
                        THEN [start_date |-> rg[1], end_date |-> rg[2], parameters |-> ps,
                              n_components |-> nc, variance_threshold |-> vt]
                        ELSE NoRequest]
    /\ rpc = [r \in Requests |-> IF r = "A" THEN "new" ELSE "off"]
    /\ scaler = Unfitted
    /\ prepared = [r \in Requests |-> NotPrepared]
    /\ pca = [r \in Requests |-> NotPerformed]

\* two requests in flight on the one service, each with the default
\* n_components and variance_threshold
PcaSharedInit ==
    /\ pca_store \in [PcaDays -> BatchKinds]
    /\ \E rg \in [Requests -> PcaRanges] :
       \E ps \in [Requests -> {[given |-> TRUE, list |-> Prefix(Names, n)] : n \in 1..MaxCols}] :
          requests = [r \in Requests |->
                        [start_date |-> rg[r][1], end_date |-> rg[r][2],
                         parameters |-> ps[r],
                         n_components |-> [given |-> FALSE, n |-> 0],
                         variance_threshold |-> DefaultVarianceThreshold]]
    /\ rpc = [r \in Requests |-> "new"]
    /\ scaler = Unfitted
    /\ prepared = [r \in Requests |-> NotPrepared]
    /\ pca = [r \in Requests |-> NotPerformed]

\* request r calls prepare_data_for_pca
Prepare(r) ==
    /\ rpc[r] = "new"
    /\ \E ratios \in Spectra(Len(PcaParameters(requests[r].parameters))) :
          LET q == requests[r]
              res == PrepareDataForPca(pca_store, q.start_date, q.end_date, q.parameters,
                                       scaler, ratios)
          IN  /\ prepared' = [prepared EXCEPT ![r] = res.out]
              /\ scaler' = res.scaler
              /\ rpc' = [rpc EXCEPT ![r] = IF res.out.status = "ok" THEN "prepared"
                                           ELSE "failed"]
    /\ UNCHANGED <<pca_store, requests, pca>>

\* request r calls perform_pca with the matrix its prepare returned
Perform(r) ==
    /\ rpc[r] = "prepared"
    /\ LET q == requests[r]
           res == PerformPca(prepared[r].X_scaled, q.n_components,
                             q.variance_threshold, scaler)
       IN  /\ pca' = [pca EXCEPT ![r] = res]
           /\ rpc' = [rpc EXCEPT ![r] = IF res.status = "ok" THEN "performed" ELSE "failed"]
    /\ UNCHANGED <<pca_store, requests, scaler, prepared>>

(***************************************************************************)
(* detect_anomalies of app/analytics/pca_service.py.  A reconstruction     *)
(* error is a whole number of units (a mean of squares: never negative),   *)
(* a percentile is counted in hundredths (0.95 is 95) and the threshold,   *)
(* a quantile, in hundredths of a unit.  A score is a float that is a      *)
(* quotient: [kind, num, den] with kind "num" for num/den, "inf" for the   *)
(* IEEE infinity and "nan" for the IEEE not-a-number.                      *)
(***************************************************************************)
MaxRows == 3      \* most rows of an error table
MaxError == 2     \* the largest reconstruction error

DefaultPercentile == 95
ScoreCap == 3

Quotient(n, d) == [kind |-> "num", num |-> n, den |-> d]
Infinity == [kind |-> "inf", num |-> 1, den |-> 0]
ScoreNaN == [kind |-> "nan", num |-> 0, den |-> 0]

\* the values of a column from the smallest up
RECURSIVE Ascending(_)
Ascending(xs) ==
    IF Len(xs) = 0 THEN <<>>
    ELSE LET m == CHOOSE i \in DOMAIN xs : \A j \in DOMAIN xs : xs[i] <= xs[j]
         IN  <<xs[m]>> \o Ascending([k \in 1..(Len(xs) - 1) |->
                                        IF k < m THEN xs[k] ELSE xs[k + 1]])

QuantileFromTop(xs, p) ==
    LET sorted == Ascending(xs)
        n == Len(sorted)
        h == (n - 1) * (100 - p)
        i == h \div 100
        f == h % 100
    IN  IF n = 0 THEN NaN
        ELSE IF f = 0 THEN Num(100 * sorted[i + 1])
        ELSE Num(100 * sorted[i + 1] + f * (sorted[i + 2] - sorted[i + 1]))

QuantileHigher(xs, p) ==
    LET sorted == Ascending(xs)
        n == Len(sorted)
        h == (n - 1) * p
        i == h \div 100
        f == h % 100
    IN  IF n = 0 THEN NaN
        ELSE IF f = 0 THEN Num(100 * sorted[i + 1])
        ELSE Num(100 * sorted[i + 2])

\* Series.quantile(p), pandas' default linear interpolation: the value at
\* position (n - 1) * p of the sorted column, between two neighbours in
\* proportion to the fractional part; NaN for an empty column.  The result
\* is in hundredths of a unit.
Quantile(xs, p) ==
    LET sorted == Ascending(xs)
        n == Len(sorted)
        h == (n - 1) * p
        i == h \div 100
        f == h % 100
    IN  IF n = 0 THEN NaN
        ELSE IF f = 0 THEN Num(100 * sorted[i + 1])
        ELSE Num(100 * sorted[i + 1] + f * (sorted[i + 2] - sorted[i + 1]))

\* reconstruction_error > threshold, the error in hundredths
Exceeds(e, threshold) == FGt(Num(e), threshold)

\* reconstruction_error / threshold in float arithmetic: 0/0 is NaN, x/0
\* with x > 0 is infinite
Divide(e, threshold) ==
    IF threshold.kind # "num" THEN ScoreNaN
    ELSE IF threshold.v = 0 THEN (IF e = 0 THEN ScoreNaN ELSE Infinity)
    ELSE Quotient(e, threshold.v)

\* .clip(upper=3.0): NaN stays NaN
Clip(x) ==
    IF x.kind = "nan" THEN x
    ELSE IF x.kind = "inf" THEN Quotient(ScoreCap, 1)
    ELSE IF x.num > ScoreCap * x.den THEN Quotient(ScoreCap, 1)
    ELSE x

\* detect_anomalies(error_df, threshold_percentile=p): the rows with their
\* is_anomaly and anomaly_score columns
DetectAnomalies(xs, p) ==
    LET threshold == Quantile(xs, p)
    IN  [i \in DOMAIN xs |->
           [reconstruction_error |-> xs[i],
            is_anomaly |-> Exceeds(100 * xs[i], threshold),
            anomaly_score |-> Clip(Divide(100 * xs[i], threshold))]]

Percentiles == {0, 50, DefaultPercentile, 100}

AnomalyIdle ==
    /\ error_df = <<>>
    /\ detected = {}
    /\ anomaly_df = [p \in Percentiles |-> <<>>]

\* an error table of up to MaxRows rows
AnomalyInit ==
    /\ \E n \in 0..MaxRows : error_df \in [1..n -> 0..MaxError]
    /\ detected = {}
    /\ anomaly_df = [p \in Percentiles |-> <<>>]

\* one call of detect_anomalies
Detect ==
    \E p \in Percentiles \ detected :
       /\ detected' = detected \cup {p}
       /\ anomaly_df' = [anomaly_df EXCEPT ![p] = DetectAnomalies(error_df, p)]
       /\ UNCHANGED error_df

(***************************************************************************)
(* The analysis endpoints of app/analytics/api.py.  A handler is a list of *)
(* steps inside one try block; each step returns or raises, and the except *)
(* clause answers for every Exception.                                     *)
(***************************************************************************)
Endpoints == {"correlation", "temporal", "pca", "biplot"}

\* the steps of each handler, in the order of its try block
Steps(ep) ==
    IF ep = "correlation"
    THEN <<"parse", "load_weather_data", "calculate_correlations",
           "identify_strong_correlations", "assemble">>
    ELSE IF ep = "temporal"
    THEN <<"parse", "analyze_temporal_stability", "assemble">>
    ELSE IF ep = "pca"
    THEN <<"parse", "prepare_data_for_pca", "perform_pca", "identify_top_contributors",
           "calculate_reconstruction_error", "detect_anomalies", "assemble">>
    ELSE <<"parse", "prepare_data_for_pca", "perform_pca", "create_biplot_data",
           "assemble">>

Absent == [given |-> FALSE, v |-> 0]
Given(x) == [given |-> TRUE, v |-> x]
AbsentText == [given |-> FALSE, v |-> ""]

\* the request bodies: "method" and "threshold" are read by the correlation
\* handler, "pvalue_threshold" is a field a client may send
Bodies ==
    [method : {AbsentText} \cup {[given |-> TRUE, v |-> m] : m \in {"pearson", "both", "kendall"}},
     threshold : {Absent, Given(5)},
     pvalue_threshold : {Absent} \cup {Given(t) : t \in PvalueThresholds \cup {6}}]

NoBody == [method |-> AbsentText, threshold |-> Absent, pvalue_threshold |-> Absent]

\* the matrices calculate_correlations can give the correlation handler, over
\* two parameters: every method of the result holds the same values
ComputedMatrices ==
    {[correlation_matrix |-> [columns |-> Prefix(Names, 2),
                              val |-> SymMatrix(2, up, 1, Num(10))],
      pvalue_matrix |-> [supplied |-> TRUE, val |-> SymMatrix(2, up, 2, Num(0))]] :
        up \in [UpperSet(2) -> Entries]}

NoComputed == [correlation_matrix |-> NoMatrix,
               pvalue_matrix |-> [supplied |-> FALSE, val |-> <<>>]]

\* the two envelopes and the state before the answer
NoAnswer == [sent |-> FALSE, success |-> FALSE, has_data |-> FALSE, has_error |-> FALSE,
             code |-> 0, strong_correlations |-> <<>>]

SuccessEnvelope(strong_list) ==
    [sent |-> TRUE, success |-> TRUE, has_data |-> TRUE, has_error |-> FALSE,
     code |-> 200, strong_correlations |-> strong_list]

FailureEnvelope ==
    [sent |-> TRUE, success |-> FALSE, has_data |-> FALSE, has_error |-> TRUE,
     code |-> 400, strong_correlations |-> <<>>]

\* what the client gets when an exception leaves the handler: the server's
\* own error page
Unhandled == [sent |-> TRUE, success |-> FALSE, has_data |-> FALSE, has_error |-> FALSE,
              code |-> 500, strong_correlations |-> <<>>]

OnExceptionBeforeAssembly(step) == IF step = "assemble" THEN Unhandled ELSE FailureEnvelope

\* `except Exception as e`: the try block spans the handler from
\* request.get_json() to the return of the response
OnException(step) == FailureEnvelope

\* the methods of the result the handler loops over, in the order of the
\* dictionary: the keys that do not end in _pvalues
ResultMethods(m) ==
    SelectSeq(<<"pearson", "spearman">>, LAMBDA k : k \in ResultKeys(m))

\* the loop of the correlation handler: identify_strong_correlations per
\* method with threshold=data.get('threshold', 0.7) and no pvalue_threshold
\* argument, each record tagged with its method
RECURSIVE StrongOfMethods(_, _, _, _)
StrongOfMethods(ms, cmp, threshold, pthr) ==
    IF Len(ms) = 0 THEN <<>>
    ELSE LET recs == IdentifyStrongCorrelations(cmp.correlation_matrix, cmp.pvalue_matrix,
                                                threshold, pthr)
         IN  [k \in 1..Len(recs) |->
                 [method |-> ms[1], variable1 |-> recs[k].var1, variable2 |-> recs[k].var2,
                  correlation |-> recs[k].corr, p_value |-> recs[k].pval]]
             \o StrongOfMethods(SubSeq(ms, 2, Len(ms)), cmp, threshold, pthr)

HandlerStrongCorrelations(b, cmp) ==
    StrongOfMethods(ResultMethods(IF b.method.given THEN b.method.v ELSE "both"), cmp,
                    IF b.threshold.given THEN b.threshold.v ELSE DefaultThreshold,
                    DefaultPvalueThreshold)

ApiIdle ==
    /\ endpoint = "correlation"
    /\ body = NoBody
    /\ computed = NoComputed
    /\ stage = 0
    /\ strong_correlations = <<>>
    /\ failed_step = "none"
    /\ answer = NoAnswer

ApiInit ==
    /\ endpoint \in Endpoints
    /\ body \in IF endpoint = "correlation" THEN Bodies ELSE {NoBody}
    /\ computed \in IF endpoint = "correlation" THEN ComputedMatrices ELSE {NoComputed}
    /\ stage = 1
    /\ strong_correlations = <<>>
    /\ failed_step = "none"
    /\ answer = NoAnswer

\* 'parameters' of the correlation payload reads the columns of the
\* pearson or spearman matrix: with a method that is neither, the result
\* is empty and the read raises
MustRaise(ep, b, step) ==
    /\ ep = "correlation"
    /\ step = "assemble"
    /\ ResultKeys(IF b.method.given THEN b.method.v ELSE "both") = {}

\* a step of the handler returns; the last step returns the success envelope
StepReturns ==
    /\ stage \in 1..Len(Steps(endpoint))
    /\ ~answer.sent
    /\ ~MustRaise(endpoint, body, Steps(endpoint)[stage])
    /\ LET step == Steps(endpoint)[stage]
       IN  /\ strong_correlations' =
                 IF step = "identify_strong_correlations"
                 THEN HandlerStrongCorrelations(body, computed)
                 ELSE strong_correlations
           /\ answer' = IF step = "assemble" THEN SuccessEnvelope(strong_correlations)
                        ELSE answer
    /\ stage' = stage + 1
    /\ UNCHANGED <<endpoint, body, computed, failed_step>>

\* a step of the handler raises: the except clause answers
StepRaises ==
    /\ stage \in 1..Len(Steps(endpoint))
    /\ ~answer.sent
    /\ failed_step' = Steps(endpoint)[stage]
    /\ answer' = OnException(Steps(endpoint)[stage])
    /\ stage' = stage + 1
    /\ UNCHANGED <<endpoint, body, computed, strong_correlations>>

(***************************************************************************)
(* A direct call of load_weather_data, as the correlation endpoint makes   *)
(* it: `parameters` is the request's list or absent.                       *)
(***************************************************************************)
\* the default parameter list of load_weather_data
DefaultLoadParameters == <<"temperature", "humidity", "wind_speed",
                           "wind_direction", "radiation", "precipitation">>

\* `if parameters is None`
LoadParameters(ps) == IF ps.given THEN ps.list ELSE DefaultLoadParameters

NotLoaded == [status |-> "pending", error |-> "", frame |-> NoFrame]
NoLoad == [status |-> "off", error |-> "", frame |-> NoFrame]

LoadIdle ==
    /\ load_store = <<>>
    /\ load_args = [start_date |-> 0, end_date |-> 0,
                    parameters |-> [given |-> FALSE, list |-> <<>>]]
    /\ loaded = NoLoad

LoadInit ==
    /\ load_store \in [PcaDays -> BatchKinds]
    /\ \E rg \in PcaRanges : \E n \in 1..MaxCols :
          load_args \in {[start_date |-> rg[1], end_date |-> rg[2], parameters |-> ps] :
                           ps \in {[given |-> FALSE, list |-> <<>>],
                                   [given |-> TRUE, list |-> Prefix(Names, n)]}}
    /\ loaded = NotLoaded

\* the call returns the rows in range with the columns timestamp,
\* station_id and the parameters
Load ==
    /\ loaded.status = "pending"
    /\ loaded' = [status |-> "ok", error |-> "",
                  frame |-> LoadWeatherData(load_store, load_args.start_date,
                                            load_args.end_date,
                                            LoadParameters(load_args.parameters))]
    /\ UNCHANGED <<load_store, load_args>>

\* the store fails: the error leaves the call
LoadRaises ==
    /\ loaded.status = "pending"
    /\ loaded' = [status |-> "error", error |-> StoreUnavailable, frame |-> NoFrame]
    /\ UNCHANGED <<load_store, load_args>>

(***************************************************************************)
(* calculate_correlations and _calculate_pvalues on the values of a        *)
(* DataFrame.  A cell is Num(v) or NaN.  A coefficient is kept in          *)
(* hundredths, rounded towards 0; a p-value in hundredths, rounded up.     *)
(***************************************************************************)
\* the values one parameter column can hold over the four rows of a sample
ColumnPatterns ==
    { <<Num(1), Num(2), Num(3), Num(4)>>,
      <<Num(2), Num(1), Num(4), Num(3)>>,
      <<Num(3), Num(3), Num(3), Num(3)>>,
      <<NaN, Num(1), Num(2), Num(4)>>,
      <<Num(1), Num(2), NaN, NaN>>,
      <<NaN, NaN, Num(1), Num(2)>>,
      <<Num(5), Num(5), Num(5), NaN>>,
      <<Num(2), Num(2), Num(2), Num(7)>> }

\* how many parameter columns a sample has
SampleWidths == {2, 3}

SampleMinObservations == {1, 3}

\* df[col].notna().sum()
NonNullCount(col) == Cardinality({i \in DOMAIN col : col[i].kind = "num"})

\* valid_cols of a sample, whose columns are all numeric parameters
ValidSampleCols(d, min_obs) ==
    SelectSeq(d.columns, LAMBDA c : NonNullCount(d.data[c]) >= min_obs)

\* the rows on which every column of the sample holds a value
JointRowsOfAll(d, a, b) ==
    {i \in 1..d.len : \A c \in Range(d.columns) : d.data[c][i].kind = "num"}

\* mask = df[[a, b]].notna().all(axis=1): the rows on which both columns hold
\* a value
JointRows(d, a, b) ==
    {i \in 1..d.len : d.data[a][i].kind = "num" /\ d.data[b][i].kind = "num"}

\* n * sum(x*y) - sum(x) * sum(y) over the rows S: n*n times the covariance
CoMoment(x, y, S) ==
    Cardinality(S) * SumOver(S, [i \in S |-> x[i] * y[i]])
        - SumOver(S, x) * SumOver(S, y)

\* the largest k with k*k <= q
ISqrt(q) == CHOOSE k \in 0..200 : k * k <= q /\ (k + 1) * (k + 1) > q

\* twice the average rank of each value among the rows S: ties share the
\* mean of their ranks
Rank(x, S) ==
    [i \in S |-> 2 * Cardinality({j \in S : x[j] < x[i]})
                   + Cardinality({j \in S : x[j] = x[i]}) + 1]

\* the values a method correlates: the cells, or their ranks among the rows S
Scores(col, S, m) ==
    LET x == [i \in S |-> col[i].v]
    IN  IF m = "pearson" THEN x ELSE Rank(x, S)

\* the squared coefficient over the rows S, in ten-thousandths: undefined
\* (NaN) when there is no such row or one side has no variance
SquaredCoefficient(cx, cy, S, m) ==
    LET x == Scores(cx, S, m)
        y == Scores(cy, S, m)
        vx == CoMoment(x, x, S)
        vy == CoMoment(y, y, S)
        c == CoMoment(x, y, S)
    IN  IF S = {} \/ vx * vy = 0 THEN NaN
        ELSE Num((10000 * c * c) \div (vx * vy))

\* DataFrame.corr(method): the coefficient of two columns over the rows S
\* where both hold a value
CorrOn(cx, cy, S, m) ==
    LET q == SquaredCoefficient(cx, cy, S, m)
        c == CoMoment(Scores(cx, S, m), Scores(cy, S, m), S)
    IN  IF q.kind = "nan" THEN NaN
        ELSE Num(IF c < 0 THEN -ISqrt(q.v) ELSE ISqrt(q.v))

\* sin^2(k * 9 degrees) in ten-thousandths, k = 1..10
ArcsineSquares == <<245, 955, 2061, 3455, 5000, 6545, 7939, 9045, 9755, 10000>>

\* the two-sided p-value scipy gives a coefficient of square q over n rows:
\* 1 - (2/pi)*arcsin|r| for n = 3, 1 - |r| for n = 4 (a sample has four rows)
TwoSidedP(n, q) ==
    IF n = 3
    THEN 100 - 10 * Cardinality({k \in DOMAIN ArcsineSquares : q >= ArcsineSquares[k]})
    ELSE 100 - ISqrt(q)

\* len(x) < 3
TooFewRows(S) == Cardinality(S) < 3

\* one entry off the diagonal: 1.0 for fewer than 3 rows, else the p-value of
\* stats.pearsonr / stats.spearmanr, NaN when a side is constant
PvalueOn(cx, cy, S, m) ==
    IF TooFewRows(S) THEN Num(100)
    ELSE LET q == SquaredCoefficient(cx, cy, S, m)
         IN  IF q.kind = "nan" THEN NaN ELSE Num(TwoSidedP(Cardinality(S), q.v))

\* analysis_df.corr(method=m) over the columns cols
CorrMatrix(d, cols, m) ==
    [columns |-> cols,
     val |-> [p \in (1..Len(cols)) \X (1..Len(cols)) |->
                CorrOn(d.data[cols[p[1]]], d.data[cols[p[2]]],
                       JointRows(d, cols[p[1]], cols[p[2]]), m)]]

\* _calculate_pvalues(analysis_df, m)
CalculatePvalues(d, cols, m) ==
    [columns |-> cols,
     val |-> [p \in (1..Len(cols)) \X (1..Len(cols)) |->
                IF p[1] = p[2] THEN Num(0)
                ELSE PvalueOn(d.data[cols[p[1]]], d.data[cols[p[2]]],
                              JointRows(d, cols[p[1]], cols[p[2]]), m)]]

\* calculate_correlations with the values of its matrices
CalculateCorrelationValues(d, m, min_obs) ==
    LET valid_cols == ValidSampleCols(d, min_obs)
    IN  IF Len(valid_cols) < 2
        THEN [status |-> "error", error |-> InsufficientData,
              matrices |-> [k \in {} |-> NoMatrix]]
        ELSE [status |-> "ok", error |-> "",
              matrices |-> [k \in ResultKeys(m) |->
                  IF k = "pearson" THEN CorrMatrix(d, valid_cols, "pearson")
                  ELSE IF k = "pearson_pvalues" THEN CalculatePvalues(d, valid_cols, "pearson")
                  ELSE IF k = "spearman" THEN CorrMatrix(d, valid_cols, "spearman")
                  ELSE CalculatePvalues(d, valid_cols, "spearman")]]

NoSample == [len |-> 0, columns |-> <<>>, data |-> [c \in {} |-> <<>>]]

NotCalculated == [status |-> "pending", error |-> "", matrices |-> [k \in {} |-> NoMatrix]]

NoCalculation == [status |-> "off", error |-> "", matrices |-> [k \in {} |-> NoMatrix]]

MatrixIdle ==
    /\ sample = NoSample
    /\ sample_args = [method |-> "both", min_observations |-> DefaultMinObservations]
    /\ matrices = NoCalculation

\* the arguments: a DataFrame of two or three parameter columns over four rows
MatrixInit ==
    /\ \E n \in SampleWidths : \E ch \in [1..n -> ColumnPatterns] :
         LET ps == Prefix(Names, n)
         IN  sample = [len |-> 4, columns |-> ps,
                       data |-> [c \in Range(ps) |-> ch[CHOOSE i \in 1..n : ps[i] = c]]]
    /\ sample_args \in [method : Methods, min_observations : SampleMinObservations]
    /\ matrices = NotCalculated

\* one call of calculate_correlations
CalculateValues ==
    /\ matrices.status = "pending"
    /\ matrices' = CalculateCorrelationValues(sample, sample_args.method,
                                              sample_args.min_observations)
    /\ UNCHANGED <<sample, sample_args>>

(***************************************************************************)
(* identify_top_contributors.  Loadings are in tenths.                     *)
(***************************************************************************)
DefaultNTop == 3

Loadings == {-2, -1, 1, 2}

\* how many features and how many components a loadings table has
TableHeights == {2, 3}
TableWidths == {1, 2}

ComponentNames == <<"PC1", "PC2">>

Abs(x) == IF x < 0 THEN -x ELSE x

\* the orders sort_values(ascending=False) can leave the features of one
\* component in: largest absolute loading first, ties in any order
DescendingOrders(index, col) ==
    {o \in [1..Len(index) -> Range(index)] :
        /\ \A i, j \in 1..Len(index) : i # j => o[i] # o[j]
        /\ \A i \in 1..(Len(index) - 1) : Abs(col[o[i]]) >= Abs(col[o[i + 1]])}

\* Series.head(n): the first n entries, or all but the last -n for n < 0
HeadOf(s, n) ==
    IF n >= 0 THEN SubSeq(s, 1, IF n < Len(s) THEN n ELSE Len(s))
    ELSE SubSeq(s, 1, IF Len(s) + n > 0 THEN Len(s) + n ELSE 0)

\* the entries carry the sorted absolute value
TopFeaturesAbsolute(col, order, n) ==
    LET top == HeadOf(order, n)
    IN  [i \in 1..Len(top) |-> [feature |-> top[i], loading |-> Abs(col[top[i]])]]

\* top_features of one component: (feature, components_df.loc[feature, pc])
\* for the first n_top features of the sorted absolute loadings
TopFeatures(col, order, n) ==
    LET top == HeadOf(order, n)
    IN  [i \in 1..Len(top) |-> [feature |-> top[i], loading |-> col[top[i]]]]

NoTable == [index |-> <<>>, columns |-> <<>>, val |-> [c \in {} |-> <<>>]]

NoTop == [status |-> "off", top |-> [c \in {} |-> <<>>]]

NotIdentified == [status |-> "pending", top |-> [c \in {} |-> <<>>]]

TopIdle ==
    /\ components_df = NoTable
    /\ n_top = DefaultNTop
    /\ top_contributors = NoTop

\* the arguments: a loadings table of 2 or 3 features and 1 or 2 components,
\* and a count n_top from 0 to one more than the features
TopInit ==
    /\ \E h \in TableHeights : \E w \in TableWidths :
         LET index == Prefix(Names, h)
             columns == Prefix(ComponentNames, w)
         IN  \E val \in [Range(columns) -> [Range(index) -> Loadings]] :
                /\ components_df = [index |-> index, columns |-> columns, val |-> val]
                /\ n_top \in 0..(h + 1)
    /\ top_contributors = NotIdentified

\* one call of identify_top_contributors
IdentifyTop ==
    /\ top_contributors.status = "pending"
    /\ \E abs_loadings \in
            [Range(components_df.columns) ->
                [1..Len(components_df.index) -> Range(components_df.index)]] :
         /\ \A c \in Range(components_df.columns) :
               abs_loadings[c] \in DescendingOrders(components_df.index, components_df.val[c])
         /\ top_contributors' =
               [status |-> "returned",
                top |-> [c \in Range(components_df.columns) |->
                           TopFeatures(components_df.val[c], abs_loadings[c], n_top)]]
    /\ UNCHANGED <<components_df, n_top>>

(***************************************************************************)
(* The store connections of load_weather_data.  get_db_connection makes a  *)
(* new psycopg2 connection per call; `with conn:` ends the transaction     *)
(* when the block is left (commit, or rollback on an error) and leaves     *)
(* the connection open; no code closes it.  What is left to close it is    *)
(* the interpreter, when it frees the unreferenced object.                 *)
(***************************************************************************)
\* psycopg2.connect(**self.db_config)
GetDbConnection(cs) == Append(cs, "open")

\* leaving `with conn:`, on success or on an error of the query: the
\* transaction ends, the connection stays as it is
ExitWith(cs) == cs

ConnectionsIdle == connections = <<>>

\* calls whose windows all hold enough rows or none, stepping forward
ConnectionsInit ==
    /\ TemporalInit
    /\ \A d \in DOMAIN store : store[d] \in {Batch(0, {}), Batch(30, {})}
    /\ window_days = 1
    /\ step_days >= 1
    /\ connections = <<>>

\* a fetch that returns its DataFrame
FetchConnects ==
    /\ WindowStep
    /\ connections' = ExitWith(GetDbConnection(connections))

\* a fetch on which psycopg2.connect raises: no connection is made
ConnectFails ==
    /\ FetchFails
    /\ UNCHANGED connections

\* a fetch on which the query raises inside the with block
QueryFails ==
    /\ FetchFails
    /\ connections' = ExitWith(GetDbConnection(connections))

\* the interpreter frees a connection object nothing refers to any more
Collect ==
    /\ \E i \in DOMAIN connections :
         /\ connections[i] = "open"
         /\ connections' = [connections EXCEPT ![i] = "closed"]

(***************************************************************************)
(* streamlit_app/utils.py.  get_db_connection is cached as a resource:     *)
(* the first call that connects stores the connection object and every     *)
(* later call is handed that same object.  load_data, get_stations and     *)
(* get_date_range are cached as data: a call runs the function body only   *)
(* when no unexpired result is held for its arguments.                     *)
(***************************************************************************)
MaxCalls == 3    \* most uncached runs followed

\* the calls the pages make: the function and, for load_data, its limit
LoaderCalls ==
    { [fn |-> "load_data", limit |-> 0], [fn |-> "load_data", limit |-> 10],
      [fn |-> "get_stations", limit |-> 0], [fn |-> "get_date_range", limit |-> 0] }

Execution(c, handed, ended) == [call |-> c, handed |-> handed, outcome |-> ended]

\* get_db_connection() through the resource cache: the object held, else a
\* new connection, which the cache then holds
HandedOut(held) == IF held = "none" THEN "open" ELSE held

UtilsIdle ==
    /\ cached_conn = "off"
    /\ data_cache = {}
    /\ executions = <<>>

\* a dashboard process that has just started
UtilsInit ==
    /\ cached_conn = "none"
    /\ data_cache = {}
    /\ executions = <<>>

Uncached(c) ==
    /\ cached_conn # "off"
    /\ c \notin data_cache
    /\ Len(executions) < MaxCalls

\* the body runs to its return: the query succeeds on the open connection,
\* conn.close() closes it, the result is cached
RunReturns(c) ==
    /\ Uncached(c)
    /\ HandedOut(cached_conn) = "open"
    /\ cached_conn' = "closed"
    /\ data_cache' = data_cache \cup {c}
    /\ executions' = Append(executions, Execution(c, "open", "returned"))

\* psycopg2.connect raises inside get_db_connection: nothing is cached
ConnectRaises(c) ==
    /\ Uncached(c)
    /\ cached_conn = "none"
    /\ executions' = Append(executions, Execution(c, "none", "raised"))
    /\ UNCHANGED <<cached_conn, data_cache>>

\* pd.read_sql raises: on a closed connection always, on an open one when
\* the query fails; conn.close() is not reached, no result is cached
QueryRaises(c) ==
    /\ Uncached(c)
    /\ cached_conn' = HandedOut(cached_conn)
    /\ executions' = Append(executions, Execution(c, HandedOut(cached_conn), "raised"))
    /\ UNCHANGED data_cache

\* a cached result passes its ttl of 300 seconds
Expire(c) ==
    /\ c \in data_cache
    /\ data_cache' = data_cache \ {c}
    /\ UNCHANGED <<cached_conn, executions>>

(***************************************************************************)
(* etl/load_csv_to_pg.py: process_all_csv_files and insert_data_to_db.     *)
(* The rows of a file are known by the file they come from and by their    *)
(* number.                                                                 *)
(***************************************************************************)
\* the CSV files the data directory can hold and the rows each one has
CsvFiles == <<"a.csv", "b.csv", "c.csv">>

RowsOf == [f \in Range(CsvFiles) |-> IF f = "a.csv" THEN 2 ELSE IF f = "b.csv" THEN 3 ELSE 0]

\* where insert_data_to_db can raise: conn.cursor(), execute_values, conn.commit()
InsertStages == {"cursor", "execute", "commit"}

\* the except block left the transaction as it was
NoRollback(u) == u

\* conn.rollback(): the rows of the open transaction are discarded
Rollback(u) == {}

\* insert_data_to_db(conn, df) for the rows of file f, raising at stage s
\* ("none": not at all): [raised, weather_raw, uncommitted, records]
InsertDataToDb(table, u, f, s) ==
    IF s = "none"
    THEN [raised |-> FALSE, weather_raw |-> table \cup u \cup {f},
          uncommitted |-> {}, records |-> RowsOf[f]]
    ELSE [raised |-> TRUE, weather_raw |-> table,
          uncommitted |-> Rollback(IF s = "cursor" THEN u ELSE u \cup {f}),
          records |-> 0]

\* os.rename(file_path, archive_path), reached when load_csv_file and
\* insert_data_to_db have returned
Archive(loc, f, inserted) == IF inserted THEN [loc EXCEPT ![f] = "processed"] ELSE loc

EtlIdle ==
    /\ csv_files = <<>>
    /\ etl_pc = "off"
    /\ file_index = 0
    /\ location = [f \in {} |-> ""]
    /\ weather_raw = {}
    /\ uncommitted = {}
    /\ total_records = 0
    /\ etl_conn = "none"
    /\ outcome = [f \in {} |-> ""]

\* a data directory holding none to all of the files, an empty table
EtlInit ==
    /\ \E S \in SUBSET Range(CsvFiles) : csv_files = SelectSeq(CsvFiles, LAMBDA f : f \in S)
    /\ etl_pc = "start"
    /\ file_index = 0
    /\ location = [f \in Range(csv_files) |-> "data"]
    /\ weather_raw = {}
    /\ uncommitted = {}
    /\ total_records = 0
    /\ etl_conn = "none"
    /\ outcome = [f \in Range(csv_files) |-> ""]

\* no file found: return before a connection is made
NothingToDo ==
    /\ etl_pc = "start"
    /\ csv_files = <<>>
    /\ etl_pc' = "done"
    /\ UNCHANGED <<csv_files, file_index, location, weather_raw, uncommitted,
                   total_records, etl_conn, outcome>>

\* conn = get_db_connection()
Connect ==
    /\ etl_pc = "start"
    /\ csv_files # <<>>
    /\ etl_conn' = "open"
    /\ etl_pc' = "loop"
    /\ file_index' = 1
    /\ UNCHANGED <<csv_files, location, weather_raw, uncommitted, total_records, outcome>>

\* get_db_connection() raises: the error leaves process_all_csv_files
EtlConnectFails ==
    /\ etl_pc = "start"
    /\ csv_files # <<>>
    /\ etl_pc' = "failed"
    /\ UNCHANGED <<csv_files, file_index, location, weather_raw, uncommitted,
                   total_records, etl_conn, outcome>>

InFileLoop == etl_pc = "loop" /\ file_index <= Len(csv_files)

\* a turn of the for loop on which load_csv_file raises: logged, continue
LoadFileFails ==
    /\ InFileLoop
    /\ outcome' = [outcome EXCEPT ![csv_files[file_index]] = "load_failed"]
    /\ location' = Archive(location, csv_files[file_index], FALSE)
    /\ file_index' = file_index + 1
    /\ UNCHANGED <<csv_files, etl_pc, weather_raw, uncommitted, total_records, etl_conn>>

\* a turn on which insert_data_to_db raises: rolled back there, logged, continue
InsertFails ==
    /\ InFileLoop
    /\ \E s \in InsertStages :
         LET f == csv_files[file_index]
             ins == InsertDataToDb(weather_raw, uncommitted, f, s)
         IN  /\ weather_raw' = ins.weather_raw
             /\ uncommitted' = ins.uncommitted
             /\ location' = Archive(location, f, ~ins.raised)
             /\ outcome' = [outcome EXCEPT ![f] = "insert_failed"]
    /\ file_index' = file_index + 1
    /\ UNCHANGED <<csv_files, etl_pc, total_records, etl_conn>>

\* a turn that loads and inserts the file; the move to the archive succeeds
\* or raises (logged, continue)
FileInserted ==
    /\ InFileLoop
    /\ \E moved \in BOOLEAN :
         LET f == csv_files[file_index]
             ins == InsertDataToDb(weather_raw, uncommitted, f, "none")
         IN  /\ weather_raw' = ins.weather_raw
             /\ uncommitted' = ins.uncommitted
             /\ total_records' = total_records + ins.records
             /\ location' = IF moved THEN Archive(location, f, ~ins.raised) ELSE location
             /\ outcome' = [outcome EXCEPT ![f] = IF moved THEN "moved" ELSE "move_failed"]
    /\ file_index' = file_index + 1
    /\ UNCHANGED <<csv_files, etl_pc, etl_conn>>

\* the loop is over: finally conn.close()
EtlFinish ==
    /\ etl_pc = "loop"
    /\ file_index > Len(csv_files)
    /\ etl_conn' = "closed"
    /\ etl_pc' = "done"
    /\ UNCHANGED <<csv_files, file_index, location, weather_raw, uncommitted,
                   total_records, outcome>>

(***************************************************************************)
(* Specifications: one per operation                                       *)
(***************************************************************************)
InitStrong == StrongInit /\ CalcIdle /\ TemporalIdle /\ PcaIdle /\ AnomalyIdle /\ ApiIdle /\ LoadIdle /\ MatrixIdle /\ TopIdle /\ ConnectionsIdle /\ UtilsIdle /\ EtlIdle
NextStrong == IdentifyStrong /\ UNCHANGED <<calcVars, temporalVars, pcaVars, anomalyVars, apiVars, loadVars, matrixVars, topVars, connVars, utilsVars, etlVars>>
SpecStrong == InitStrong /\ [][NextStrong]_vars

InitCalc == StrongIdle /\ CalcInit /\ TemporalIdle /\ PcaIdle /\ AnomalyIdle /\ ApiIdle /\ LoadIdle /\ MatrixIdle /\ TopIdle /\ ConnectionsIdle /\ UtilsIdle /\ EtlIdle
NextCalc == Calculate /\ UNCHANGED <<strongVars, temporalVars, pcaVars, anomalyVars, apiVars, loadVars, matrixVars, topVars, connVars, utilsVars, etlVars>>
SpecCalc == InitCalc /\ [][NextCalc]_vars

InitTemporal == StrongIdle /\ CalcIdle /\ TemporalInit /\ PcaIdle /\ AnomalyIdle /\ ApiIdle /\ LoadIdle /\ MatrixIdle /\ TopIdle /\ ConnectionsIdle /\ UtilsIdle /\ EtlIdle
NextTemporal ==
    \/ Call /\ UNCHANGED <<strongVars, calcVars, pcaVars, anomalyVars, apiVars, loadVars, matrixVars, topVars, connVars, utilsVars, etlVars>>
    \/ WindowStep /\ UNCHANGED <<strongVars, calcVars, pcaVars, anomalyVars, apiVars, loadVars, matrixVars, topVars, connVars, utilsVars, etlVars>>
    \/ FetchFails /\ UNCHANGED <<strongVars, calcVars, pcaVars, anomalyVars, apiVars, loadVars, matrixVars, topVars, connVars, utilsVars, etlVars>>
    \/ Return /\ UNCHANGED <<strongVars, calcVars, pcaVars, anomalyVars, apiVars, loadVars, matrixVars, topVars, connVars, utilsVars, etlVars>>
SpecTemporal == InitTemporal /\ [][NextTemporal]_vars

InitScenario == StrongIdle /\ CalcIdle /\ ScenarioInit /\ PcaIdle /\ AnomalyIdle /\ ApiIdle /\ LoadIdle /\ MatrixIdle /\ TopIdle /\ ConnectionsIdle /\ UtilsIdle /\ EtlIdle
SpecScenario == InitScenario /\ [][NextTemporal]_vars

InitPcaCall == StrongIdle /\ CalcIdle /\ TemporalIdle /\ PcaCallInit /\ AnomalyIdle /\ ApiIdle /\ LoadIdle /\ MatrixIdle /\ TopIdle /\ ConnectionsIdle /\ UtilsIdle /\ EtlIdle
NextPca ==
    \/ \E r \in Requests : Prepare(r) /\ UNCHANGED <<strongVars, calcVars, temporalVars, anomalyVars, apiVars, loadVars, matrixVars, topVars, connVars, utilsVars, etlVars>>
    \/ \E r \in Requests : Perform(r) /\ UNCHANGED <<strongVars, calcVars, temporalVars, anomalyVars, apiVars, loadVars, matrixVars, topVars, connVars, utilsVars, etlVars>>
SpecPcaCall == InitPcaCall /\ [][NextPca]_vars

InitPcaShared == StrongIdle /\ CalcIdle /\ TemporalIdle /\ PcaSharedInit /\ AnomalyIdle /\ ApiIdle /\ LoadIdle /\ MatrixIdle /\ TopIdle /\ ConnectionsIdle /\ UtilsIdle /\ EtlIdle
SpecPcaShared == InitPcaShared /\ [][NextPca]_vars

InitAnomaly == StrongIdle /\ CalcIdle /\ TemporalIdle /\ PcaIdle /\ AnomalyInit /\ ApiIdle /\ LoadIdle /\ MatrixIdle /\ TopIdle /\ ConnectionsIdle /\ UtilsIdle /\ EtlIdle
NextAnomaly == Detect /\ UNCHANGED <<strongVars, calcVars, temporalVars, pcaVars, apiVars, loadVars, matrixVars, topVars, connVars, utilsVars, etlVars>>
SpecAnomaly == InitAnomaly /\ [][NextAnomaly]_vars

InitApi == StrongIdle /\ CalcIdle /\ TemporalIdle /\ PcaIdle /\ AnomalyIdle /\ ApiInit /\ LoadIdle /\ MatrixIdle /\ TopIdle /\ ConnectionsIdle /\ UtilsIdle /\ EtlIdle
NextApi ==
    \/ StepReturns /\ UNCHANGED <<strongVars, calcVars, temporalVars, pcaVars, anomalyVars, loadVars, matrixVars, topVars, connVars, utilsVars, etlVars>>
    \/ StepRaises /\ UNCHANGED <<strongVars, calcVars, temporalVars, pcaVars, anomalyVars, loadVars, matrixVars, topVars, connVars, utilsVars, etlVars>>
SpecApi == InitApi /\ [][NextApi]_vars

InitLoad == StrongIdle /\ CalcIdle /\ TemporalIdle /\ PcaIdle /\ AnomalyIdle /\ ApiIdle /\ LoadInit /\ MatrixIdle /\ TopIdle /\ ConnectionsIdle /\ UtilsIdle /\ EtlIdle
NextLoad ==
    \/ Load /\ UNCHANGED <<strongVars, calcVars, temporalVars, pcaVars, anomalyVars, apiVars, matrixVars, topVars, connVars, utilsVars, etlVars>>
    \/ LoadRaises /\ UNCHANGED <<strongVars, calcVars, temporalVars, pcaVars, anomalyVars, apiVars, matrixVars, topVars, connVars, utilsVars, etlVars>>
SpecLoad == InitLoad /\ [][NextLoad]_vars

\* the three operations that fetch observations, each called on its own
InitFetching == InitLoad \/ InitTemporal \/ InitPcaCall
NextFetching == NextLoad \/ NextTemporal \/ NextPca
SpecFetching == InitFetching /\ [][NextFetching]_vars

InitMatrix == StrongIdle /\ CalcIdle /\ TemporalIdle /\ PcaIdle /\ AnomalyIdle /\ ApiIdle /\ LoadIdle /\ MatrixInit /\ TopIdle /\ ConnectionsIdle /\ UtilsIdle /\ EtlIdle
NextMatrix == CalculateValues /\ UNCHANGED <<strongVars, calcVars, temporalVars, pcaVars, anomalyVars, apiVars, loadVars, topVars, connVars, utilsVars, etlVars>>
SpecMatrix == InitMatrix /\ [][NextMatrix]_vars

InitTop == StrongIdle /\ CalcIdle /\ TemporalIdle /\ PcaIdle /\ AnomalyIdle /\ ApiIdle /\ LoadIdle /\ MatrixIdle /\ TopInit /\ ConnectionsIdle /\ UtilsIdle /\ EtlIdle
NextTop == IdentifyTop /\ UNCHANGED <<strongVars, calcVars, temporalVars, pcaVars, anomalyVars, apiVars, loadVars, matrixVars, connVars, utilsVars, etlVars>>
SpecTop == InitTop /\ [][NextTop]_vars

InitConnections == StrongIdle /\ CalcIdle /\ ConnectionsInit /\ PcaIdle /\ AnomalyIdle /\ ApiIdle /\ LoadIdle /\ MatrixIdle /\ TopIdle /\ UtilsIdle /\ EtlIdle
NextConnections ==
    \/ Call /\ UNCHANGED <<strongVars, calcVars, pcaVars, anomalyVars, apiVars, loadVars, matrixVars, topVars, connVars, utilsVars, etlVars>>
    \/ FetchConnects /\ UNCHANGED <<strongVars, calcVars, pcaVars, anomalyVars, apiVars, loadVars, matrixVars, topVars, utilsVars, etlVars>>
    \/ ConnectFails /\ UNCHANGED <<strongVars, calcVars, pcaVars, anomalyVars, apiVars, loadVars, matrixVars, topVars, utilsVars, etlVars>>
    \/ QueryFails /\ UNCHANGED <<strongVars, calcVars, pcaVars, anomalyVars, apiVars, loadVars, matrixVars, topVars, utilsVars, etlVars>>
    \/ Return /\ UNCHANGED <<strongVars, calcVars, pcaVars, anomalyVars, apiVars, loadVars, matrixVars, topVars, connVars, utilsVars, etlVars>>
    \/ Collect /\ UNCHANGED <<strongVars, calcVars, temporalVars, pcaVars, anomalyVars, apiVars, loadVars, matrixVars, topVars, utilsVars, etlVars>>
SpecConnections == InitConnections /\ [][NextConnections]_vars

InitUtils == StrongIdle /\ CalcIdle /\ TemporalIdle /\ PcaIdle /\ AnomalyIdle /\ ApiIdle /\ LoadIdle /\ MatrixIdle /\ TopIdle /\ ConnectionsIdle /\ UtilsInit /\ EtlIdle
NextUtils ==
    \/ \E c \in LoaderCalls : RunReturns(c) /\ UNCHANGED <<strongVars, calcVars, temporalVars, pcaVars, anomalyVars, apiVars, loadVars, matrixVars, topVars, connVars, etlVars>>
    \/ \E c \in LoaderCalls : ConnectRaises(c) /\ UNCHANGED <<strongVars, calcVars, temporalVars, pcaVars, anomalyVars, apiVars, loadVars, matrixVars, topVars, connVars, etlVars>>
    \/ \E c \in LoaderCalls : QueryRaises(c) /\ UNCHANGED <<strongVars, calcVars, temporalVars, pcaVars, anomalyVars, apiVars, loadVars, matrixVars, topVars, connVars, etlVars>>
    \/ \E c \in LoaderCalls : Expire(c) /\ UNCHANGED <<strongVars, calcVars, temporalVars, pcaVars, anomalyVars, apiVars, loadVars, matrixVars, topVars, connVars, etlVars>>
SpecUtils == InitUtils /\ [][NextUtils]_vars

InitEtl == StrongIdle /\ CalcIdle /\ TemporalIdle /\ PcaIdle /\ AnomalyIdle /\ ApiIdle /\ LoadIdle /\ MatrixIdle /\ TopIdle /\ ConnectionsIdle /\ UtilsIdle /\ EtlInit
NextEtl ==
    \/ NothingToDo /\ UNCHANGED <<strongVars, calcVars, temporalVars, pcaVars, anomalyVars, apiVars, loadVars, matrixVars, topVars, connVars, utilsVars>>
    \/ Connect /\ UNCHANGED <<strongVars, calcVars, temporalVars, pcaVars, anomalyVars, apiVars, loadVars, matrixVars, topVars, connVars, utilsVars>>
    \/ EtlConnectFails /\ UNCHANGED <<strongVars, calcVars, temporalVars, pcaVars, anomalyVars, apiVars, loadVars, matrixVars, topVars, connVars, utilsVars>>
    \/ LoadFileFails /\ UNCHANGED <<strongVars, calcVars, temporalVars, pcaVars, anomalyVars, apiVars, loadVars, matrixVars, topVars, connVars, utilsVars>>
    \/ InsertFails /\ UNCHANGED <<strongVars, calcVars, temporalVars, pcaVars, anomalyVars, apiVars, loadVars, matrixVars, topVars, connVars, utilsVars>>
    \/ FileInserted /\ UNCHANGED <<strongVars, calcVars, temporalVars, pcaVars, anomalyVars, apiVars, loadVars, matrixVars, topVars, connVars, utilsVars>>
    \/ EtlFinish /\ UNCHANGED <<strongVars, calcVars, temporalVars, pcaVars, anomalyVars, apiVars, loadVars, matrixVars, topVars, connVars, utilsVars>>
SpecEtl == InitEtl /\ [][NextEtl]_vars

Init == InitStrong \/ InitCalc \/ InitTemporal \/ InitPcaCall \/ InitPcaShared \/ InitAnomaly \/ InitApi \/ InitLoad \/ InitMatrix \/ InitTop \/ InitConnections \/ InitUtils \/ InitEtl
Next == NextStrong \/ NextCalc \/ NextTemporal \/ NextPca \/ NextAnomaly \/ NextApi \/ NextLoad \/ NextMatrix \/ NextTop \/ NextConnections \/ NextUtils \/ NextEtl
Spec == Init /\ [][Next]_vars

(***************************************************************************)
(* Claims about calculate_correlations                                     *)
(***************************************************************************)
\* the columns the claim says are kept: numeric, not station_id, with a
\* non-missing count >= min_observations
KeptColumns ==
    {c \in Range(df.columns) :
        c \in df.numeric /\ c # "station_id" /\ df.count[c] >= min_observations}

\* C1: calculate_correlations keeps a numeric column iff its non-missing
\* count is >= min_observations, station_id never being a candidate; with
\* fewer than 2 kept columns the call fails with the insufficient-data error
\* and returns no matrix, whatever the method selector; otherwise every
\* matrix returned is over exactly the kept columns.
C1_KeepsColumnsOrFails ==
    calc.status # "pending" =>
        /\ calc.status = "error" <=> Cardinality(KeptColumns) < 2
        /\ calc.status = "error" =>
              calc.error = InsufficientData /\ DOMAIN calc.matrices = {}
        /\ calc.status = "ok" =>
              \A k \in DOMAIN calc.matrices :
                 /\ Range(calc.matrices[k].columns) = KeptColumns
                 /\ Len(calc.matrices[k].columns) = Cardinality(KeptColumns)

\* a call that failed although station_id is numeric and complete and one
\* parameter column is kept, a second one falling short of min_observations
C1_Witness ==
    /\ calc.status = "error"
    /\ "station_id" \in df.numeric
    /\ Cardinality(KeptColumns) = 1
    /\ \E c \in df.numeric : c # "station_id" /\ df.count[c] < min_observations
    /\ method = "spearman"

(***************************************************************************)
(* Claims about identify_strong_correlations                               *)
(***************************************************************************)
\* x <= y on floats: False when either is NaN
FLe(x, y) == x.kind = "num" /\ y.kind = "num" /\ x.v <= y.v

ColumnIndex(name) ==
    CHOOSE i \in DOMAIN correlation_matrix.columns : correlation_matrix.columns[i] = name

\* the pair (columns i, j) is in the list returned for threshold t
Returned(t, p) ==
    \E k \in DOMAIN strong[t] :
        /\ strong[t][k].var1 = correlation_matrix.columns[p[1]]
        /\ strong[t][k].var2 = correlation_matrix.columns[p[2]]

\* C2: a pair (A,B) is returned iff |coefficient(A,B)| >= threshold and (no
\* p-value matrix was supplied or p_value(A,B) <= pvalue_threshold), for
\* every entry, NaN coefficients and NaN p-values included.
C2_ReturnedIffQualifies ==
    \A t \in called : \A p \in UpperSet(Len(correlation_matrix.columns)) :
        Returned(t, p) <=>
            /\ FGe(FAbs(correlation_matrix.val[p]), Num(t))
            /\ \/ ~pvalue_matrix.supplied
               \/ FLe(pvalue_matrix.val[p], Num(pvalue_threshold))

\* C3: each unordered pair of columns is visited once, with i < j: the list
\* never holds (A,A), never holds both (A,B) and (B,A), and never holds the
\* same pair twice.
C3_EachPairOnce ==
    \A t \in called : \A a \in DOMAIN strong[t] :
        /\ strong[t][a].var1 # strong[t][a].var2
        /\ ColumnIndex(strong[t][a].var1) < ColumnIndex(strong[t][a].var2)
        /\ \A b \in DOMAIN strong[t] :
              a # b => {strong[t][a].var1, strong[t][a].var2}
                          # {strong[t][b].var1, strong[t][b].var2}

\* a call that returned every pair of a three-column matrix
C3_Witness ==
    \E t \in called : Len(correlation_matrix.columns) = 3 /\ Len(strong[t]) = 3

\* the place of a record's pair in the upper-triangle iteration (row, then column)
IterationRank(r) ==
    ColumnIndex(r.var1) * (Len(correlation_matrix.columns) + 1) + ColumnIndex(r.var2)

\* C4: the list is ordered by |coefficient| descending, and records of equal
\* |coefficient| stand in the order the upper-triangle iteration made them.
C4_SortedStable ==
    \A t \in called : \A a, b \in DOMAIN strong[t] :
        a < b =>
            /\ FGe(FAbs(strong[t][a].corr), FAbs(strong[t][b].corr))
            /\ FAbs(strong[t][a].corr) = FAbs(strong[t][b].corr)
                  => IterationRank(strong[t][a]) < IterationRank(strong[t][b])

\* a list in which a weaker pair visited first stands behind two tied pairs
C4_Witness ==
    \E t \in called : \E a, b, c \in DOMAIN strong[t] :
        /\ a < b /\ b < c
        /\ FAbs(strong[t][a].corr) = FAbs(strong[t][b].corr)
        /\ strong[t][a].corr # strong[t][b].corr
        /\ FAbs(strong[t][b].corr) # FAbs(strong[t][c].corr)
        /\ IterationRank(strong[t][c]) < IterationRank(strong[t][a])

PairSet(t) == {<<strong[t][k].var1, strong[t][k].var2>> : k \in DOMAIN strong[t]}

\* C5: for fixed matrices and pvalue_threshold and thresholds t1 < t2, the
\* pairs returned at t2 are a subset of the pairs returned at t1.
C5_ThresholdMonotone ==
    \A t1, t2 \in called : t1 < t2 => PairSet(t2) \subseteq PairSet(t1)

\* both thresholds were used and the higher one returned fewer pairs, not none
C5_Witness ==
    \E t1, t2 \in called :
        /\ t1 < t2
        /\ PairSet(t2) # {}
        /\ PairSet(t2) # PairSet(t1)

(***************************************************************************)
(* Claims about analyze_temporal_stability                                 *)
(***************************************************************************)
WindowStarts == [i \in DOMAIN results.windows |-> results.windows[i].start]

StrictlyIncreasing(q) == \A i, j \in DOMAIN q : i < j => q[i] < q[j]

\* C6: the candidate windows start at start + i*step_days, i = 0, 1, 2, ...,
\* exactly while t + window_days <= end; every recorded window spans
\* window_days (a window that would pass `end` is dropped, never shortened),
\* and the recorded windows of a returned result stand in strictly
\* increasing start order.
C6_WindowsGenerated ==
    /\ \A i \in DOMAIN fetched :
          /\ fetched[i].start = start_date + (i - 1) * step_days
          /\ fetched[i].end = fetched[i].start + window_days
          /\ fetched[i].end <= end_date
    /\ \A i \in DOMAIN results.windows :
          /\ results.windows[i].end - results.windows[i].start = window_days
          /\ \E k \in DOMAIN fetched :
                /\ fetched[k].start = results.windows[i].start
                /\ fetched[k].end = results.windows[i].end
    /\ pc \in {"loop", "done"} =>
          current_start = start_date + Len(fetched) * step_days
    /\ pc = "done" =>
          /\ current_start + window_days > end_date
          /\ StrictlyIncreasing(WindowStarts)

\* a returned result with two recorded windows, the next candidate starting
\* before `end` and dropped for passing it
C6_Witness ==
    /\ pc = "done"
    /\ Len(results.windows) >= 2
    /\ current_start < end_date
    /\ current_start + window_days > end_date

\* the range, window and step of Scenario D
ScenarioD ==
    /\ end_date = start_date + 90
    /\ window_days = 30
    /\ step_days = 30

\* every fetched window has at least 30 rows and at least 30 values of
\* every tracked parameter
EnoughDataEverywhere ==
    \A i \in DOMAIN fetched :
        /\ fetched[i].frame.len >= 30
        /\ \A c \in Range(tracked) : fetched[i].frame.count[c] >= 30

SeriesLengths(n) ==
    \A key \in DOMAIN results.correlations :
        /\ Len(results.correlations[key].pearson) = n
        /\ Len(results.correlations[key].spearman) = n

\* C7 as stated: over end = start + 90 days with window_days = 30 and
\* step_days = 30, exactly 2 windows are generated, and with enough data in
\* every window each tracked pair gets one pearson and one spearman value
\* per window.
C7_TwoWindows ==
    (pc = "done" /\ ScenarioD) =>
        /\ Len(fetched) = 2
        /\ EnoughDataEverywhere => Len(results.windows) = 2 /\ SeriesLengths(2)

\* C7 as amended: over end = start + 90 days with window_days = 30 and
\* step_days = 30, exactly 3 windows are generated, starting at start,
\* start + 30 and start + 60 (the third ends on `end` and passes the loop
\* test; the fourth, starting at start + 90, is rejected), and with enough
\* data in every window each tracked pair gets one pearson and one spearman
\* value per window.
C7_ThreeWindows ==
    (pc = "done" /\ ScenarioD) =>
        /\ Len(fetched) = 3
        /\ \A i \in 1..3 : fetched[i].start = start_date + 30 * (i - 1)
        /\ current_start = start_date + 90
        /\ EnoughDataEverywhere => Len(results.windows) = 3 /\ SeriesLengths(3)

\* Scenario D returned, every window having had enough data
C7_Witness ==
    /\ pc = "done"
    /\ ScenarioD
    /\ EnoughDataEverywhere
    /\ Len(results.windows) = 3
    /\ Len(tracked) = 3

\* the timestamps of the store's rows
Stamped == {d \in DOMAIN store : store[d].rows > 0}

\* C8: the rows fetched for a window are exactly those with
\* start <= timestamp < end, so with step_days = window_days no observation
\* is counted in two adjacent windows.
C8_HalfOpenFetch ==
    /\ \A i \in DOMAIN fetched :
          fetched[i].frame.stamps =
              {d \in Stamped : fetched[i].start <= d /\ d < fetched[i].end}
    /\ (step_days = window_days /\ step_days > 0) =>
          \A i, j \in DOMAIN fetched :
             i # j => fetched[i].frame.stamps \cap fetched[j].frame.stamps = {}

\* C9: every tracked pair's pearson and spearman series hold exactly one
\* value per recorded window, the i-th value being that of the i-th window,
\* also when a tracked parameter is excluded from some window's matrix.
C9_SeriesAligned ==
    \A key \in DOMAIN results.correlations :
        LET ser == results.correlations[key]
        IN  /\ Len(ser.pearson) = Len(results.windows)
            /\ Len(ser.spearman) = Len(results.windows)
            /\ \A i \in DOMAIN results.windows :
                  /\ ser.pearson[i].start = results.windows[i].start
                  /\ ser.pearson[i].end = results.windows[i].end
                  /\ ser.spearman[i].start = results.windows[i].start
                  /\ ser.spearman[i].end = results.windows[i].end

\* the fetched window is processed to the end: it has at least 30 rows and at
\* least 2 tracked parameters with 30 values, so calculate_correlations
\* does not raise
Processed(f) ==
    /\ f.frame.len >= 30
    /\ Cardinality({c \in Range(tracked) : f.frame.count[c] >= 30}) >= 2

\* C10: a window is processed only if its fetched row count is >= 30; a
\* window with fewer rows, or whose correlation computation raises, adds
\* nothing to the window list or to any series, no error of a window's
\* computation reaches the caller (the call fails on a store error only),
\* and every later window is still fetched and processed: the window list
\* is the list of the processed windows among all candidates.
C10_SkippedWindowsLeaveNothing ==
    /\ raised # InsufficientData
    /\ pc = "failed" => store_errors > 0
    /\ LET done == SelectSeq(fetched, Processed)
       IN  /\ results.windows =
                 [i \in 1..Len(done) |-> [start |-> done[i].start, end |-> done[i].end,
                                          observations |-> done[i].frame.len]]
           /\ \A key \in DOMAIN results.correlations :
                 LET ser == results.correlations[key]
                 IN  /\ Len(ser.pearson) <= Len(done)
                     /\ Len(ser.spearman) <= Len(done)
                     /\ \A v \in Range(ser.pearson) \cup Range(ser.spearman) :
                           \E k \in DOMAIN done :
                              done[k].start = v.start /\ done[k].end = v.end
    /\ pc = "done" =>
          Len(fetched) = Cardinality({i \in 0..MaxIter :
                             start_date + i * step_days + window_days <= end_date})

\* a returned result in which a window with too few rows and a window whose
\* computation raised were each followed by a recorded window
C10_Witness ==
    /\ pc = "done"
    /\ \E i, j, k \in DOMAIN fetched :
          /\ i < k /\ j < k /\ i # j
          /\ fetched[i].frame.len < 30
          /\ fetched[j].frame.len >= 30 /\ ~Processed(fetched[j])
          /\ Processed(fetched[k])
          /\ results.windows[Len(results.windows)].start = fetched[k].start

(***************************************************************************)
(* Claims about the errors of the correlation engine                       *)
(***************************************************************************)
\* a fetched window that enters the try block and in which fewer than 2 of
\* the tracked parameters have min_observations non-missing values
Insufficient(f) ==
    /\ EnoughRows(f.frame)
    /\ Cardinality({c \in Range(tracked) : f.frame.count[c] >= DefaultMinObservations}) < 2

\* C11 (as stated): whenever the insufficient-data condition arises inside
\* a public core operation the caller receives the error, also when it
\* arises for one window inside analyze_temporal_stability.
C11_InsufficientDataSurfaced ==
    (\E i \in DOMAIN fetched : Insufficient(fetched[i])) => raised = InsufficientData

\* C11 (amended): calculate_correlations raises the insufficient-data error
\* to its caller; when that caller is the window loop of
\* analyze_temporal_stability the error stops there: the window is left out
\* of the result, the error never reaches the caller of
\* analyze_temporal_stability, and a returned result has seen every window.
C11_InsufficientDataStopsAtWindow ==
    \A i \in DOMAIN fetched :
       Insufficient(fetched[i]) =>
          LET cr == CalculateCorrelations(fetched[i].frame, "both", DefaultMinObservations)
          IN  /\ cr.status = "error" /\ cr.error = InsufficientData
              /\ raised # InsufficientData
              /\ pc = "failed" => store_errors > 0
              /\ \A k \in DOMAIN results.windows :
                    results.windows[k].start # fetched[i].start

\* a returned result for which a window had too few usable parameters and
\* a later window was recorded
C11_Witness ==
    /\ pc = "done"
    /\ \E i, j \in DOMAIN fetched :
          /\ i < j
          /\ Insufficient(fetched[i])
          /\ Processed(fetched[j])
          /\ \E k \in DOMAIN results.windows : results.windows[k].start = fetched[j].start

\* C12: a store failure during a fetch reaches the caller of
\* analyze_temporal_stability unchanged and is not retried: the call has
\* failed exactly when one fetch met a store error, the error raised is the
\* store's, nothing is fetched or returned after it.
C12_StoreErrorPropagates ==
    /\ store_errors <= 1
    /\ store_errors = 1 <=> pc = "failed"
    /\ pc = "failed" => raised = StoreUnavailable
    /\ raised = StoreUnavailable => pc = "failed"
    /\ pc = "failed" => ~ENABLED (WindowStep \/ FetchFails \/ Return)

\* the store failed on a later window, after a window had been recorded
C12_Witness ==
    /\ pc = "failed"
    /\ raised = StoreUnavailable
    /\ Len(results.windows) >= 1
    /\ InLoop(current_start)

\* the column names the text of an error holds: the one error of
\* calculate_correlations is a constant literal and holds none
ColumnsNamedIn(msg) ==
    {c \in Range(Names) \cup {"timestamp", "station_id"} : msg # InsufficientData /\ c = msg}

\* the candidate columns calculate_correlations left out for their
\* non-missing count
ExcludedColumns ==
    {c \in Range(df.columns) :
        c \in df.numeric /\ c # "station_id" /\ df.count[c] < min_observations}

\* C13: when calculate_correlations fails because a column was excluded
\* for having fewer than min_observations non-missing values, the error the
\* caller receives names the excluded column.
C13_ErrorNamesExcludedColumn ==
    (calc.status = "error" /\ ExcludedColumns # {}) =>
        ExcludedColumns \subseteq ColumnsNamedIn(calc.error)

(***************************************************************************)
(* Claims about the PCA engine                                             *)
(***************************************************************************)
\* the requests whose prepare_data_for_pca has returned or raised
PrepareCalled == {r \in Requests : rpc[r] \in {"prepared", "performed", "failed"}
                                   /\ prepared[r].status # "pending"}

\* C14: prepare_data_for_pca fails with the insufficient-data error
\* whenever fewer than 2 of the requested parameters are usable, and never
\* returns a feature matrix with fewer than 2 columns.
C14_PrepareNeedsTwoFeatures ==
    \A r \in PrepareCalled :
       /\ prepared[r].status = "ok" => Len(prepared[r].X_scaled.columns) >= 2
       /\ Len(PcaParameters(requests[r].parameters)) < 2 =>
             prepared[r].status = "error" /\ prepared[r].error = InsufficientData

\* the requests whose perform_pca returned after choosing n_components itself
AutoSelected == {r \in Requests : rpc[r] = "performed" /\ ~requests[r].n_components.given}

\* the component counts of request r at which the cumulative explained
\* variance ratio of the full fit reaches the request's variance_threshold
Reaching(r) ==
    LET full == CumSum(prepared[r].X_scaled.ratios)
    IN  {k \in DOMAIN full : full[k] >= requests[r].variance_threshold}

\* C15: with n_components absent and some k in 1..n_features reaching the
\* threshold, perform_pca selects the smallest such k: the cumulative ratio
\* at k meets variance_threshold and the one at k-1 does not; the result
\* holds the first k ratios.
C15_SmallestSufficientCount ==
    \A r \in AutoSelected :
       Reaching(r) # {} =>
          LET full == CumSum(prepared[r].X_scaled.ratios)
              k == pca[r].n_components
          IN  /\ k \in 1..Len(prepared[r].X_scaled.columns)
              /\ k \in Reaching(r)
              /\ \A j \in Reaching(r) : k <= j
              /\ k > 1 => full[k - 1] < requests[r].variance_threshold
              /\ pca[r].cumulative_variance_ratio = SubSeq(full, 1, k)

\* an automatic selection that stopped after more than one and before the
\* last component, a later count reaching the threshold too
C15_Witness ==
    \E r \in AutoSelected :
       /\ pca[r].n_components > 1
       /\ pca[r].n_components < Len(prepared[r].X_scaled.columns)
       /\ Cardinality(Reaching(r)) >= 2

\* C16: the automatic selection returns n_components <= n_features; the
\* final cumulative ratio is >= variance_threshold when some count reaches
\* it, and when none does the result keeps all n_features components.
C16_WithinFeaturesElseAll ==
    \A r \in AutoSelected :
       LET k == pca[r].n_components
           cum == pca[r].cumulative_variance_ratio
       IN  /\ k <= Len(prepared[r].X_scaled.columns)
           /\ IF Reaching(r) # {}
              THEN cum[Len(cum)] >= requests[r].variance_threshold
              ELSE k = Len(prepared[r].X_scaled.columns)

\* C17: the mean and scale of a PCA result are those fitted on the data
\* that produced the feature matrix handed to that perform_pca call,
\* however the prepare and perform calls of the requests sharing the
\* service interleave.
C17_ScalerOfOwnData ==
    \A r \in Requests :
       rpc[r] = "performed" =>
          /\ pca[r].mean = prepared[r].X_scaled.data
          /\ pca[r].scale = prepared[r].X_scaled.data

(***************************************************************************)
(* Claims about detect_anomalies                                           *)
(***************************************************************************)
\* the rows flagged by the call at percentile p
Flagged(p) == {i \in DOMAIN anomaly_df[p] : anomaly_df[p][i].is_anomaly}

\* C18: detect_anomalies flags a row iff its error is above the percentile
\* threshold, its score is min(error / threshold, 3.0), every score is a
\* defined number in [0, 3.0], and a row is flagged iff its score is above
\* 1; also when the threshold is 0.
C18_ScoresDefinedAndCapped ==
    \A p \in detected :
       LET threshold == Quantile(error_df, p)
       IN  \A i \in DOMAIN anomaly_df[p] :
              LET row == anomaly_df[p][i]
                  e == 100 * error_df[i]
                  score == row.anomaly_score
              IN  /\ row.is_anomaly <=> e > threshold.v
                  /\ score.kind = "num" /\ score.den > 0
                  /\ 0 <= score.num /\ score.num <= ScoreCap * score.den
                  /\ threshold.v > 0 =>
                        IF e <= ScoreCap * threshold.v
                        THEN score.num * threshold.v = e * score.den
                        ELSE score.num = ScoreCap * score.den
                  /\ row.is_anomaly <=> score.num > score.den

\* C19: for percentiles p1 < p2 in [0, 1] the rows flagged at p2 are among
\* the rows flagged at p1.
C19_PercentileMonotone ==
    \A p1, p2 \in detected : p1 < p2 => Flagged(p2) \subseteq Flagged(p1)

\* two calls of which the higher percentile flags some rows, and fewer
\* than the lower one
C19_Witness ==
    \E p1, p2 \in detected :
       /\ p1 < p2
       /\ Flagged(p2) # {}
       /\ Flagged(p2) # Flagged(p1)

\* the rows whose error is strictly above the error of every other row
StrictMaximum ==
    {i \in DOMAIN error_df : \A j \in DOMAIN error_df : j # i => error_df[j] < error_df[i]}

\* C20: in a table of at least 2 rows of which one has an error strictly
\* above every other, detect_anomalies at percentile 0.95 flags that row.
C20_StrictMaximumFlagged ==
    (DefaultPercentile \in detected /\ Len(error_df) >= 2) =>
        StrictMaximum \subseteq Flagged(DefaultPercentile)

\* a call at 0.95 on a table of 2 and on one of more rows with a strict
\* maximum, the row next to it in size being above zero
C20_Witness ==
    /\ DefaultPercentile \in detected
    /\ Len(error_df) >= 2
    /\ \E i \in StrictMaximum :
          /\ i \in Flagged(DefaultPercentile)
          /\ \E j \in DOMAIN error_df : j # i /\ error_df[j] > 0

(***************************************************************************)
(* Claims about the analysis endpoints                                     *)
(***************************************************************************)
\* C21: an analysis endpoint answers with exactly one of two envelopes:
\* success with a data payload, or failure with an error description and no
\* data payload; a failure in any step of the request, response assembly
\* included, gives the failure envelope, and success is answered only when
\* every step returned.
C21_OneOfTwoEnvelopes ==
    answer.sent =>
        /\ \/ answer.success /\ answer.has_data /\ ~answer.has_error /\ answer.code = 200
           \/ ~answer.success /\ ~answer.has_data /\ answer.has_error /\ answer.code = 400
        /\ answer.success <=> failed_step = "none"
        /\ answer.success => stage = Len(Steps(endpoint)) + 1
        /\ ~answer.success => answer.strong_correlations = <<>>

\* the response assembly of the correlation endpoint failed after the
\* strong pairs had been collected
C21_Witness ==
    /\ answer.sent
    /\ endpoint = "correlation"
    /\ failed_step = "assemble"
    /\ strong_correlations # <<>>
    /\ answer = FailureEnvelope

\* the p-value cutoff the claim has the correlation request use
RequestedPvalueThreshold ==
    IF body.pvalue_threshold.given THEN body.pvalue_threshold.v ELSE DefaultPvalueThreshold

\* C22: the correlation request accepts a significance threshold: the
\* strong-correlation list of the response is selected with the p-value
\* cutoff the caller supplied, and with 0.05 only when none was supplied.
C22_RequestedCutoffUsed ==
    (endpoint = "correlation" /\ answer.sent /\ answer.success) =>
        answer.strong_correlations =
            StrongOfMethods(ResultMethods(IF body.method.given THEN body.method.v
                                          ELSE "both"),
                            computed,
                            IF body.threshold.given THEN body.threshold.v
                            ELSE DefaultThreshold,
                            RequestedPvalueThreshold)

(***************************************************************************)
(* Claims about the default parameter sets                                 *)
(***************************************************************************)
SixParameters == {"temperature", "humidity", "wind_speed", "wind_direction",
                  "radiation", "precipitation"}

\* the parameter columns of a fetched DataFrame
ParameterColumns(d) == Range(d.columns) \ {"timestamp", "station_id"}

\* load_weather_data and prepare_data_for_pca called without `parameters`
\* request and analyse the six parameters
LoadAndPcaDefaultSix ==
    /\ (loaded.status = "ok" /\ ~load_args.parameters.given) =>
          ParameterColumns(loaded.frame) = SixParameters
    /\ \A r \in Requests :
          (rpc[r] \notin {"off", "new"} /\ ~requests[r].parameters.given) =>
              /\ Range(PcaParameters(requests[r].parameters)) = SixParameters
              /\ prepared[r].status = "ok" =>
                    Range(prepared[r].X_scaled.columns) = SixParameters

\* C23 (as stated): in every core operation that fetches observations an
\* absent `parameters` argument means the same six parameters are requested
\* and analysed.
C23_SameSixEverywhere ==
    /\ LoadAndPcaDefaultSix
    /\ (pc \notin {"off", "idle"} /\ ~parameters.given) =>
          /\ Range(tracked) = SixParameters
          /\ \A i \in DOMAIN fetched : ParameterColumns(fetched[i].frame) = SixParameters

\* C23 (amended): an absent `parameters` argument means the six parameters
\* in load_weather_data and prepare_data_for_pca, and the four parameters
\* temperature, humidity, wind_speed, radiation in
\* analyze_temporal_stability, which hands its list to load_weather_data:
\* every window is fetched and tracked over these four.
C23_DefaultPerOperation ==
    /\ LoadAndPcaDefaultSix
    /\ (pc \notin {"off", "idle"} /\ ~parameters.given) =>
          /\ tracked = <<"temperature", "humidity", "wind_speed", "radiation">>
          /\ \A i \in DOMAIN fetched :
                ParameterColumns(fetched[i].frame) = Range(tracked)
          /\ DOMAIN results.correlations = PairKeys(tracked)
          /\ Cardinality(DOMAIN results.correlations) = 6

\* a temporal analysis without `parameters` that returned a recorded window
C23_Witness ==
    /\ pc = "done"
    /\ ~parameters.given
    /\ Len(results.windows) >= 1

(***************************************************************************)
(* Claims about the values calculate_correlations returns                  *)
(***************************************************************************)
\* the columns of the sample that are kept
KeptSampleColumns ==
    {c \in Range(sample.columns) :
        Cardinality({i \in 1..sample.len : sample.data[c][i] # NaN})
            >= sample_args.min_observations}

\* the rows of the sample where both a and b hold a value
BothPresent(a, b) ==
    {i \in 1..sample.len : sample.data[a][i] # NaN /\ sample.data[b][i] # NaN}

PvalueKeys == DOMAIN matrices.matrices \cap {"pearson_pvalues", "spearman_pvalues"}

CoefficientKeys == DOMAIN matrices.matrices \cap {"pearson", "spearman"}

MethodOfKey(k) == IF k \in {"pearson", "pearson_pvalues"} THEN "pearson" ELSE "spearman"

\* C24: every p-value matrix calculate_correlations returns is square over
\* the kept columns, has 0.0 on its diagonal, is symmetric, and holds 1.0 for
\* every pair of columns with fewer than 3 rows where both hold a value; the
\* entry of a pair (A,B) is the p-value over exactly the rows where A and B
\* both hold a value, whatever is missing in any other column.
C24_PvalueMatrixShape ==
    matrices.status = "ok" =>
        \A k \in PvalueKeys :
            LET pm == matrices.matrices[k]
                n == Len(pm.columns)
            IN  /\ Range(pm.columns) = KeptSampleColumns
                /\ n = Cardinality(KeptSampleColumns)
                /\ DOMAIN pm.val = (1..n) \X (1..n)
                /\ \A i \in 1..n : pm.val[<<i, i>>] = Num(0)
                /\ \A i, j \in 1..n :
                      /\ pm.val[<<i, j>>] = pm.val[<<j, i>>]
                      /\ i # j =>
                           LET rows == BothPresent(pm.columns[i], pm.columns[j])
                           IN  /\ Cardinality(rows) < 3 => pm.val[<<i, j>>] = Num(100)
                               /\ pm.val[<<i, j>>] =
                                     PvalueOn(sample.data[pm.columns[i]],
                                              sample.data[pm.columns[j]],
                                              rows, MethodOfKey(k))

\* a returned Pearson p-value matrix over three columns: one pair has four
\* rows in common, one of them missing in the third column, and a p-value
\* strictly between 0 and 1; another pair has fewer than 3 rows in common
C24_Witness ==
    /\ matrices.status = "ok"
    /\ "pearson_pvalues" \in DOMAIN matrices.matrices
    /\ LET pm == matrices.matrices["pearson_pvalues"]
           n == Len(pm.columns)
       IN  /\ n = 3
           /\ \E i, j, k \in 1..n :
                 /\ i # j /\ k \notin {i, j}
                 /\ Cardinality(BothPresent(pm.columns[i], pm.columns[j])) = 4
                 /\ \E r \in BothPresent(pm.columns[i], pm.columns[j]) :
                       sample.data[pm.columns[k]][r] = NaN
                 /\ pm.val[<<i, j>>].kind = "num"
                 /\ pm.val[<<i, j>>].v > 0 /\ pm.val[<<i, j>>].v < 100
                 /\ Cardinality(BothPresent(pm.columns[i], pm.columns[k])) < 3
                 /\ pm.val[<<i, k>>] = Num(100)

\* a kept column whose values are all the same
ZeroVariance(c) ==
    /\ c \in KeptSampleColumns
    /\ \A i, j \in 1..sample.len :
          (sample.data[c][i] # NaN /\ sample.data[c][j] # NaN) =>
              sample.data[c][i] = sample.data[c][j]

\* C25: calculate_correlations never returns an undefined value because of a
\* numeric degeneracy: every returned coefficient is a number in [-1, 1],
\* every returned p-value a number in [0, 1], and for a pair with a
\* zero-variance column the p-value is 1.0 and the coefficient 0.
C25_NoUndefinedValue ==
    matrices.status = "ok" =>
        /\ \A k \in CoefficientKeys : \A p \in DOMAIN matrices.matrices[k].val :
              LET m == matrices.matrices[k]
              IN  /\ m.val[p].kind = "num"
                  /\ m.val[p].v >= -100 /\ m.val[p].v <= 100
                  /\ (p[1] # p[2] /\ (ZeroVariance(m.columns[p[1]])
                                       \/ ZeroVariance(m.columns[p[2]])))
                        => m.val[p] = Num(0)
        /\ \A k \in PvalueKeys : \A p \in DOMAIN matrices.matrices[k].val :
              LET m == matrices.matrices[k]
              IN  /\ m.val[p].kind = "num"
                  /\ m.val[p].v >= 0 /\ m.val[p].v <= 100
                  /\ (p[1] # p[2] /\ (ZeroVariance(m.columns[p[1]])
                                       \/ ZeroVariance(m.columns[p[2]])))
                        => m.val[p] = Num(100)

(***************************************************************************)
(* Claims about identify_top_contributors                                  *)
(***************************************************************************)
\* the absolute loading of a feature on a component
AbsLoading(c, f) ==
    IF components_df.val[c][f] < 0 THEN -components_df.val[c][f]
    ELSE components_df.val[c][f]

\* C26: for every component, identify_top_contributors returns
\* min(n_top, number of features) entries, ordered by absolute loading
\* descending, no feature twice, each with the feature's signed loading; no
\* feature left out has a larger absolute loading than a feature returned.
C26_TopByAbsoluteLoading ==
    top_contributors.status = "returned" =>
        /\ DOMAIN top_contributors.top = Range(components_df.columns)
        /\ \A c \in Range(components_df.columns) :
              LET t == top_contributors.top[c]
                  n == Len(components_df.index)
              IN  /\ Len(t) = (IF n_top < n THEN n_top ELSE n)
                  /\ \A i, j \in DOMAIN t :
                        /\ i < j => AbsLoading(c, t[i].feature) >= AbsLoading(c, t[j].feature)
                        /\ i # j => t[i].feature # t[j].feature
                  /\ \A i \in DOMAIN t :
                        /\ t[i].feature \in Range(components_df.index)
                        /\ t[i].loading = components_df.val[c][t[i].feature]
                        /\ \A f \in Range(components_df.index) \ {t[k].feature : k \in DOMAIN t} :
                              AbsLoading(c, f) <= AbsLoading(c, t[i].feature)

\* two of three features returned for the second component: the first has a
\* negative loading, the one left out ties with the second one returned
C26_Witness ==
    /\ top_contributors.status = "returned"
    /\ Len(components_df.index) = 3
    /\ n_top = 2
    /\ "PC2" \in DOMAIN top_contributors.top
    /\ LET t == top_contributors.top["PC2"]
       IN  /\ Len(t) = 2
           /\ t[1].loading = -2
           /\ \E f \in Range(components_df.index) \ {t[1].feature, t[2].feature} :
                 AbsLoading("PC2", f) = AbsLoading("PC2", t[2].feature)

(***************************************************************************)
(* Claims about the store connections                                      *)
(***************************************************************************)
\* C27: every fetch makes its own connection and has closed it by the time
\* it returns, on success and on failure: between the fetches of
\* analyze_temporal_stability and after it no connection is open.
C27_NoConnectionLeftOpen ==
    /\ Len(connections) <= Len(fetched) + store_errors
    /\ Len(connections) >= Len(fetched)
    /\ \A i \in DOMAIN connections : connections[i] = "closed"

(***************************************************************************)
(* Claims about the termination of analyze_temporal_stability              *)
(***************************************************************************)
\* C28: analyze_temporal_stability terminates for every window_days and
\* step_days it is passed, 0 and negative step_days included: no turn of the
\* while loop comes back to the loop condition with current_start where it
\* was (the store and the arguments being what they were, such a turn is
\* taken again for ever).
C28_EveryTurnMovesOn ==
    [][(pc = "loop" /\ pc' = "loop") => current_start' # current_start]_vars

(***************************************************************************)
(* Claims about the dashboard's utils.py                                   *)
(***************************************************************************)
\* C29: every uncached run of load_data, get_stations and get_date_range
\* runs on an open connection: the cached get_db_connection never hands out
\* a connection that has been closed.
C29_NeverHandedClosed ==
    \A i \in DOMAIN executions : executions[i].handed # "closed"

(***************************************************************************)
(* Claims about process_all_csv_files                                      *)
(***************************************************************************)
\* the files whose turn of the loop ended in a failure to load or to insert
FailedFiles == {f \in Range(csv_files) : outcome[f] \in {"load_failed", "insert_failed"}}

\* the files whose rows were inserted and committed on their turn
InsertedFiles == {f \in Range(csv_files) : outcome[f] \in {"moved", "move_failed"}}

\* C30: a file is in the processed archive only when its rows were inserted
\* and committed; a file that failed to load or to insert has none of its
\* rows in the table or in an open transaction, stays in the data directory
\* and adds nothing to the total; the files after it get their turn; and
\* when the run is over the connection it opened is closed.
C30_ArchivedOnlyWhenCommitted ==
    /\ \A f \in Range(csv_files) :
          location[f] = "processed" => (f \in weather_raw /\ outcome[f] = "moved")
    /\ \A f \in FailedFiles :
          /\ location[f] = "data"
          /\ f \notin weather_raw
          /\ f \notin uncommitted
    /\ total_records = SumOver(InsertedFiles, RowsOf)
    /\ etl_pc = "done" =>
          /\ \A f \in Range(csv_files) : outcome[f] # ""
          /\ etl_conn # "open"
          /\ (csv_files # <<>> => etl_conn = "closed")
    /\ etl_pc = "failed" => etl_conn = "none"

\* a finished run over three files: the first failed to insert, the second
\* failed to load, the third was inserted and moved
C30_Witness ==
    /\ etl_pc = "done"
    /\ Len(csv_files) = 3
    /\ outcome[csv_files[1]] = "insert_failed"
    /\ outcome[csv_files[2]] = "load_failed"
    /\ outcome[csv_files[3]] = "moved"
    /\ location[csv_files[3]] = "processed"
    /\ weather_raw = {csv_files[3]}
    /\ etl_conn = "closed"

====
